---------------------------- MODULE Spec2Model ----------------------------
(***************************************************************************)
(* A model of the Polymarket market-making bot: the Inventory Ledger and   *)
(* Risk Gate (src/src/risk_manager.py), the Quote Engine                   *)
(* (src/src/quote_engine.py), the Order Manager (src/src/order_manager.py),*)
(* the paper-trading simulator (src/src/paper_simulator.py) and the        *)
(* control loop (src/src/bot.py).                                          *)
(*                                                                         *)
(* Decimal values are exact rationals <<n, d>> (d > 0, lowest terms), in   *)
(* dollars for prices and P&L and in shares for sizes.  Python's Decimal   *)
(* carries 28 significant digits; every value the bounds below reach is    *)
(* far shorter except quotients by a quantity, which are kept exact here.  *)
(***************************************************************************)
EXTENDS Integers, Sequences, FiniteSets, TLC

----------------------------------------------------------------------------
(* Exact decimal arithmetic *)

Abs(x) == IF x < 0 THEN -x ELSE x

RECURSIVE GCD(_, _)
GCD(a, b) == IF b = 0 THEN a ELSE GCD(b, a % b)

\* The rational n/d in lowest terms with a positive denominator.
R(n, d) ==
    LET s == IF d < 0 THEN -1 ELSE 1
        g == GCD(Abs(n), Abs(d))
    IN  <<(s * n) \div g, (s * d) \div g>>

Zero == <<0, 1>>
FromInt(i) == <<i, 1>>

RAdd(x, y) == R(x[1] * y[2] + y[1] * x[2], x[2] * y[2])
RSub(x, y) == R(x[1] * y[2] - y[1] * x[2], x[2] * y[2])
RMul(x, y) == R(x[1] * y[1], x[2] * y[2])
RDiv(x, y) == R(x[1] * y[2], x[2] * y[1])
RNeg(x) == <<-x[1], x[2]>>
RAbs(x) == <<Abs(x[1]), x[2]>>
RLt(x, y) == x[1] * y[2] < y[1] * x[2]
RLe(x, y) == x[1] * y[2] <= y[1] * x[2]
RMax(x, y) == IF RLt(x, y) THEN y ELSE x
RMin(x, y) == IF RLt(y, x) THEN y ELSE x

\* Python's int(Decimal): truncation toward zero.
IntOf(x) == IF x[1] >= 0 THEN x[1] \div x[2] ELSE -((-x[1]) \div x[2])

Max(a, b) == IF a < b THEN b ELSE a
Min(a, b) == IF a < b THEN a ELSE b

----------------------------------------------------------------------------
(* Bounds and configuration of the model *)

Assets == {"A", "B"}
\* The tokens the Order Manager quotes.
Tokens == {"A"}
Sides == {"BUY", "SELL"}

\* RiskManager.__init__ parameters (risk_manager.py:184-187), configured small
\* so that the fills below reach every limit.
max_position_per_market == 20
max_total_exposure == R(15, 1)
max_inventory_imbalance == 12
daily_loss_limit == R(45, 100)

\* Fills the venue may report: prices, sizes (whole units), and the mids a book
\* update may carry.
\* Asset B trades less than asset A: its fills come at one price and size, and
\* its book is never marked.
FillPrices(a) == IF a = "A" THEN {R(49, 100), R(51, 100)} ELSE {R(49, 100)}
FillSizes(a) == IF a = "A" THEN {FromInt(10), FromInt(20)} ELSE {FromInt(20)}
Mids(a) == IF a = "A" THEN {R(48, 100), R(55, 100)} ELSE {}
\* Orders offered to the Risk Gate: a fractional size among them.
CheckSizes == {FromInt(10), R(21, 2)}
CheckPrices == {R(50, 100)}
HaltReasons == {"manual"}

MaxFills == 2
MaxDays == 1

----------------------------------------------------------------------------
(* State *)

VARIABLES
    positions,              \* InventoryManager._positions: asset -> Position
    buy_cash,               \* sum of price x size over the BUY trades of _trade_history, per asset
    sell_cash,              \* the same over its SELL trades
    last_mid,               \* per asset: the price of the last update_unrealized, fresh until a later fill
    halted,                 \* RiskManager._halted
    halt_reason,            \* RiskManager._halt_reason
    daily_pnl,              \* RiskManager._daily_pnl
    daily_pnl_reset_time,   \* the UTC date of RiskManager._daily_pnl_reset_time
    today,                  \* the UTC date of datetime.utcnow()
    nfills,                 \* number of fills applied so far (bounded by MaxFills)
    last_op,                \* the operation that produced this state, with its arguments
    last_result,            \* what that operation returned
    orderbook,              \* quote engine input: the OrderBook snapshot
    inventory,              \* quote engine input: the position quantity
    hours_to_expiry,        \* quote engine input: hours to expiry, or NoHours
    volatility_factor,      \* quote engine input
    adverse_selection_factor, \* QuoteEngine._adverse_selection_factor
    price_history,          \* SmartQuoteEngine._price_history (the prices)
    quotes,                 \* the QuoteSet calculate_quotes last returned, or NoQuoteSet
    should_quote_result,    \* what should_quote last returned
    qe_op,                  \* the quote engine operation that produced this state
    om_orders,              \* OrderManager._orders: token -> side -> list of ManagedOrder
    sim_orders,             \* PaperTradingSimulator.orders, in order of placement
    sim_trades,             \* PaperTradingSimulator.trades
    market_states,          \* PaperTradingSimulator.market_states
    now,                    \* datetime.utcnow(), in units of time
    om_op,                  \* the Order Manager operation that produced this state
    om_rejected,            \* per side, the keys whose placement in that operation gave no LIVE order
    om_sync,                \* the last sync_with_exchange: the venue's ids, the records it dropped
    mode,                   \* "polling" or "push": MarketMakingBot.use_websocket
    pc,                     \* where the control loop is: "idle" between ticks, "quoting" within one
    markets_to_update,      \* the tokens the current tick has still to quote
    place_queue,            \* the placements update_quotes has still to issue for the current token
    pending_quote_updates,  \* MarketMakingBot._pending_quote_updates
    applied,                \* per trade_id, how many times update_position has applied it
    polls,                  \* number of polling ticks so far (bounded by MaxPolls)
    paper_orders,           \* PolymarketClient._paper_orders, in order of placement
    paper_trades,           \* PolymarketClient._paper_trades
    paper_op,               \* the operation on the fallback paper store that produced this state
    running,                \* MarketMakingBot._running
    lifecycle,              \* "idle" between ticks, "tick" within one, "stopped" after _cleanup
    cashout_legs,           \* the legs the cashout handler has attempted, in order
    cashout_reply,          \* what the cashout handler answered, or NoReply
    unrounded_price,        \* the price handed to _round_price
    rounded_price,          \* what _round_price returned for it, or None before the call
    sim_balance,            \* PaperTradingSimulator.balance
    sim_positions,          \* PaperTradingSimulator.positions: asset -> shares
    sim_stats,              \* PaperTradingSimulator.stats
    sim_is_adverse,         \* PaperTradingSimulator._is_adverse (FALSE while unset)
    sim_created,            \* per simulator order: created_at, and the market's mid when it was placed
    sim_price_history,      \* MarketState.price_history of token A: entries [t, mid]
    sim_volume,             \* MarketState.recent_volume, volume_window_start, trade_count of token A
    sim_op,                 \* the simulator operation that produced this state
    ws_orderbooks,          \* PolymarketWebSocket._orderbooks[A]: the feed's cached book, or NoBook
    client_ws_orderbooks,   \* PolymarketClient._ws_orderbooks[A]: the client's cached book, or NoBook
    last_change,            \* per side and price, the size of the last delta since the snapshot, or None
    feed_op,                \* the feed event handled last
    reconnect_count,        \* PolymarketWebSocket._reconnect_count
    channels,               \* per channel: where its runner is, its last wait_time, its failed
                            \* attempts in a row, and whether this connection sent its subscription
    snapshot_seen,          \* a book event has arrived since the market channel last connected
    om_tasks,               \* per coroutine of the Order Manager: its operation, where it is, its locals
    om_pending_cancels,     \* OrderManager._pending_cancels
    om_objects,             \* the ManagedOrder objects, by order id
    om_dicts,               \* the dicts that have been OrderManager._orders[A]; the last is the current one
    venue_requests,         \* the cancel requests in flight at the venue: [task, order_id]
    om_skipped,             \* the cancels _cancel_order skipped in the last step: [task, order_id]
    om_cancelled_all        \* cancel_all_orders(A) has returned and update_quotes has not been called since

ledgerVars == <<positions, buy_cash, sell_cash, last_mid, nfills>>
riskVars == <<halted, halt_reason, daily_pnl, daily_pnl_reset_time, today>>
opVars == <<last_op, last_result>>
qeVars == <<orderbook, inventory, hours_to_expiry, volatility_factor,
            adverse_selection_factor, price_history,
            quotes, should_quote_result, qe_op>>
omVars == <<om_orders, sim_orders, sim_trades, market_states, now, om_op, om_rejected, om_sync>>
loopVars == <<mode, pc, markets_to_update, place_queue, pending_quote_updates, applied, polls>>
paperVars == <<paper_orders, paper_trades, paper_op>>
stopVars == <<running, lifecycle>>
cashoutVars == <<cashout_legs, cashout_reply>>
roundVars == <<unrounded_price, rounded_price>>
\* The state of the components that are exercised on their own.
simVars == <<sim_balance, sim_positions, sim_stats, sim_is_adverse, sim_created,
             sim_price_history, sim_volume, sim_op>>
bookVars == <<ws_orderbooks, client_ws_orderbooks, last_change, feed_op>>
channelVars == <<reconnect_count, channels, snapshot_seen>>
feedVars == <<bookVars, channelVars>>
\* The state of the models in which coroutines interleave at their awaits.
asyncVars == <<om_tasks, om_pending_cancels, om_objects, om_dicts, venue_requests, om_skipped,
               om_cancelled_all>>
componentVars == <<roundVars, simVars, feedVars, asyncVars>>
vars == <<ledgerVars, riskVars, opVars, qeVars, omVars, loopVars, paperVars, stopVars, cashoutVars,
          componentVars>>

\* The variables a step of the ledger and risk gate leaves alone.
outsideLedger == <<qeVars, omVars, loopVars, paperVars, stopVars, cashoutVars, componentVars>>
\* The variables a step of the quote engine leaves alone.
outsideQuoteEngine == <<ledgerVars, riskVars, opVars, omVars, loopVars, paperVars, stopVars, cashoutVars, componentVars>>
\* The variables a step of the Order Manager or the venue leaves alone.
outsideOrderManager == <<ledgerVars, riskVars, opVars, qeVars, loopVars, paperVars, stopVars, cashoutVars, componentVars>>
\* The variables a step of the control loop leaves alone.
outsideLoop == <<qeVars, om_orders, sim_orders, market_states, now, om_op, om_rejected, om_sync,
                 daily_pnl, daily_pnl_reset_time, today, paperVars, stopVars, cashoutVars,
                 componentVars>>
\* The variables neither the Order Manager nor the bot's life cycle touches.
outsideStop == <<ledgerVars, riskVars, opVars, qeVars, loopVars, paperVars, cashoutVars, componentVars>>
\* The variables a step of the fallback paper store leaves alone.
outsidePaper == <<ledgerVars, riskVars, opVars, qeVars, omVars, loopVars, stopVars, cashoutVars, componentVars>>

----------------------------------------------------------------------------
(* Inventory Ledger: risk_manager.py, Position and InventoryManager *)

\* InventoryManager.get_position creates Position(quantity=0, avg_entry_price=0)
\* for an asset it has not seen; the ledger is modelled with that default in
\* place for every asset.
NewPosition ==
    [quantity |-> 0, avg_entry_price |-> Zero,
     realized_pnl |-> Zero, unrealized_pnl |-> Zero]

\* Position.update_unrealized
update_unrealized(position, current_price) ==
    IF position.quantity = 0
    THEN [position EXCEPT !.unrealized_pnl = Zero]
    ELSE IF position.quantity > 0
    THEN [position EXCEPT !.unrealized_pnl =
            RMul(RSub(current_price, position.avg_entry_price), FromInt(position.quantity))]
    ELSE [position EXCEPT !.unrealized_pnl =
            RMul(RSub(position.avg_entry_price, current_price), FromInt(Abs(position.quantity)))]

\* A BUY that takes the trade price as the entry price of the whole position.
update_position_buy_at_trade_price(position, trade) ==
    [position EXCEPT !.avg_entry_price = trade.price,
                     !.quantity = position.quantity + IntOf(trade.size)]

\* The BUY branch of InventoryManager.update_position.
update_position_buy(position, trade) ==
    LET old_quantity == position.quantity
        new_quantity == old_quantity + IntOf(trade.size)
    IN  IF new_quantity # 0
        THEN IF old_quantity >= 0
             THEN LET old_cost == RMul(position.avg_entry_price, FromInt(Max(0, old_quantity)))
                      new_cost == RMul(trade.price, trade.size)
                  IN  [position EXCEPT
                         !.avg_entry_price = RDiv(RAdd(old_cost, new_cost), FromInt(new_quantity)),
                         !.quantity = new_quantity]
             ELSE LET closed_qty == Min(IntOf(trade.size), Abs(old_quantity))
                      pnl == RMul(RSub(position.avg_entry_price, trade.price), FromInt(closed_qty))
                  IN  [position EXCEPT
                         !.realized_pnl = RAdd(@, pnl),
                         !.avg_entry_price = IF new_quantity > 0 THEN trade.price ELSE @,
                         !.quantity = new_quantity]
        ELSE [position EXCEPT !.quantity = new_quantity]

\* The SELL branch of InventoryManager.update_position.
update_position_sell(position, trade) ==
    LET old_quantity == position.quantity
        new_quantity == old_quantity - IntOf(trade.size)
    IN  IF new_quantity # 0
        THEN IF old_quantity <= 0
             THEN LET old_cost == RMul(position.avg_entry_price, FromInt(Abs(Min(0, old_quantity))))
                      new_cost == RMul(trade.price, trade.size)
                  IN  [position EXCEPT
                         !.avg_entry_price = RDiv(RAdd(old_cost, new_cost), FromInt(Abs(new_quantity))),
                         !.quantity = new_quantity]
             ELSE LET closed_qty == Min(IntOf(trade.size), old_quantity)
                      pnl == RMul(RSub(trade.price, position.avg_entry_price), FromInt(closed_qty))
                  IN  [position EXCEPT
                         !.realized_pnl = RAdd(@, pnl),
                         !.avg_entry_price = IF new_quantity < 0 THEN trade.price ELSE @,
                         !.quantity = new_quantity]
        ELSE [position EXCEPT !.quantity = new_quantity]

\* InventoryManager.update_position: the ledger after a trade.
update_position(ps, trade) ==
    [ps EXCEPT ![trade.token_id] =
        IF trade.side = "BUY"
        THEN update_position_buy(@, trade)
        ELSE update_position_sell(@, trade)]

\* InventoryManager.update_all_unrealized
update_all_unrealized(ps, prices) ==
    [a \in Assets |->
        IF a \in DOMAIN prices THEN update_unrealized(ps[a], prices[a]) ELSE ps[a]]

RECURSIVE RSum(_, _)
\* sum(f[a] for a in S)
RSum(f, S) ==
    IF S = {} THEN Zero
    ELSE LET a == CHOOSE x \in S : TRUE
         IN  RAdd(f[a], RSum(f, S \ {a}))

get_total_long_exposure(ps) ==
    RSum([a \in Assets |-> RMul(ps[a].avg_entry_price, FromInt(ps[a].quantity))],
         {a \in Assets : ps[a].quantity > 0})

get_total_short_exposure(ps) ==
    RSum([a \in Assets |-> RMul(ps[a].avg_entry_price, FromInt(Abs(ps[a].quantity)))],
         {a \in Assets : ps[a].quantity < 0})

get_net_exposure(ps) == RSub(get_total_long_exposure(ps), get_total_short_exposure(ps))
get_gross_exposure(ps) == RAdd(get_total_long_exposure(ps), get_total_short_exposure(ps))

get_total_realized_pnl(ps) == RSum([a \in Assets |-> ps[a].realized_pnl], Assets)
get_total_unrealized_pnl(ps) == RSum([a \in Assets |-> ps[a].unrealized_pnl], Assets)

----------------------------------------------------------------------------
(* Risk Gate: risk_manager.py, RiskManager *)

\* The total P&L that check_daily_loss compares with the limit.
total_pnl(ps) == RAdd(get_total_realized_pnl(ps), get_total_unrealized_pnl(ps))

\* A Risk Gate that compares the untruncated size with the position limit.
check_order_allowed_exact_size(ps, is_halted, reason, token_id, side, size, price) ==
    IF is_halted THEN <<FALSE, <<"Trading halted", reason>>>>
    ELSE
    LET new_qty == IF side = "BUY" THEN RAdd(FromInt(ps[token_id].quantity), size)
                                   ELSE RSub(FromInt(ps[token_id].quantity), size)
        new_net == IF side = "BUY" THEN RAdd(get_net_exposure(ps), RMul(price, size))
                                   ELSE RSub(get_net_exposure(ps), RMul(price, size))
    IN  IF RLt(FromInt(max_position_per_market), RAbs(new_qty))
        THEN <<FALSE, <<"Would exceed position limit", "">>>>
        ELSE IF RLt(max_total_exposure, RAdd(get_gross_exposure(ps), RMul(price, size)))
        THEN <<FALSE, <<"Would exceed total exposure", "">>>>
        ELSE IF RLt(FromInt(max_inventory_imbalance), RAbs(new_net))
        THEN <<FALSE, <<"Would exceed inventory imbalance", "">>>>
        ELSE <<TRUE, <<"OK", "">>>>

\* RiskManager.check_order_allowed: <<allowed, reason>>.  A reason is the text
\* of the message and, for a halt, the halt reason it quotes; the figures the
\* code formats into the other messages are left out.
check_order_allowed(ps, is_halted, reason, token_id, side, size, price) ==
    IF is_halted THEN <<FALSE, <<"Trading halted", reason>>>>
    ELSE
    LET current_qty == ps[token_id].quantity
        new_qty == IF side = "BUY" THEN current_qty + IntOf(size)
                                   ELSE current_qty - IntOf(size)
        current_exposure == get_gross_exposure(ps)
        additional_exposure == RMul(price, size)
        net_exposure == get_net_exposure(ps)
        new_net == IF side = "BUY" THEN RAdd(net_exposure, RMul(price, size))
                                   ELSE RSub(net_exposure, RMul(price, size))
    IN  IF Abs(new_qty) > max_position_per_market
        THEN <<FALSE, <<"Would exceed position limit", "">>>>
        ELSE IF RLt(max_total_exposure, RAdd(current_exposure, additional_exposure))
        THEN <<FALSE, <<"Would exceed total exposure", "">>>>
        ELSE IF RLt(FromInt(max_inventory_imbalance), RAbs(new_net))
        THEN <<FALSE, <<"Would exceed inventory imbalance", "">>>>
        ELSE <<TRUE, <<"OK", "">>>>

\* RiskManager.check_daily_loss: whether the limit is hit.
daily_loss_hit(ps) == RLt(total_pnl(ps), RNeg(daily_loss_limit))

\* A check_daily_loss that lifts the halt once the loss is back within the limit.
halted_while_loss_exceeds_limit(ps, is_halted) == daily_loss_hit(ps)

\* RiskManager.check_daily_loss: the halt flag and reason it leaves.  The
\* flag is only ever set here, never cleared.
halted_after_check_daily_loss(ps, is_halted) ==
    IF daily_loss_hit(ps) THEN TRUE ELSE is_halted

halt_reason_after_check_daily_loss(ps, reason) ==
    IF daily_loss_hit(ps) THEN "Daily loss limit hit" ELSE reason

----------------------------------------------------------------------------
(* Order book: client.py, OrderBook *)

\* Python's None for an Optional[Decimal]: no rational has denominator 0.
None == <<0, 0>>
\* The truth value of an Optional[Decimal]: None and Decimal 0 are false.
Truthy(x) == x # None /\ x # Zero

Level(price, size) == [price |-> price, size |-> size]

best_bid(ob) == IF ob.bids # <<>> THEN ob.bids[1].price ELSE None
best_ask(ob) == IF ob.asks # <<>> THEN ob.asks[1].price ELSE None

mid_price(ob) ==
    IF Truthy(best_bid(ob)) /\ Truthy(best_ask(ob))
    THEN RDiv(RAdd(best_bid(ob), best_ask(ob)), FromInt(2))
    ELSE None

RECURSIVE SeqSum(_)
\* sum(seq) of Decimals
SeqSum(seq) == IF seq = <<>> THEN Zero ELSE RAdd(Head(seq), SeqSum(Tail(seq)))

\* levels[:depth]
Prefix(levels, depth) == SubSeq(levels, 1, Min(depth, Len(levels)))

weighted_mid(ob, depth) ==
    IF ob.bids = <<>> \/ ob.asks = <<>> THEN None
    ELSE
    LET bs == Prefix(ob.bids, depth)
        as == Prefix(ob.asks, depth)
        bid_value == SeqSum([i \in 1..Len(bs) |-> RMul(bs[i].price, bs[i].size)])
        bid_size == SeqSum([i \in 1..Len(bs) |-> bs[i].size])
        ask_value == SeqSum([i \in 1..Len(as) |-> RMul(as[i].price, as[i].size)])
        ask_size == SeqSum([i \in 1..Len(as) |-> as[i].size])
    IN  IF bid_size = Zero \/ ask_size = Zero THEN mid_price(ob)
        ELSE RDiv(RAdd(RDiv(bid_value, bid_size), RDiv(ask_value, ask_size)), FromInt(2))

----------------------------------------------------------------------------
(* Quote Engine: quote_engine.py, QuoteEngine and SmartQuoteEngine *)

\* QuoteEngine.__init__ defaults, which the bot keeps (bot.py:65-71).
base_spread == R(2, 100)
min_spread == R(1, 100)
max_spread == R(10, 100)
min_price == R(5, 100)
max_price == R(95, 100)
num_levels == 3
level_spacing == R(1, 100)
default_size == FromInt(20)
inventory_skew_threshold == 100

\* hours_to_expiry=None
NoHours == <<0, 0>>

\* Decimal.quantize(Decimal("1")) in the default context, whose rounding is
\* ROUND_HALF_EVEN: the nearest integer, a tie going to the even one.
quantize(x) ==
    LET q == x[1] \div x[2]
        r == x[1] - q * x[2]
    IN  IF 2 * r < x[2] THEN q
        ELSE IF 2 * r > x[2] THEN q + 1
        ELSE IF q % 2 = 0 THEN q ELSE q + 1

\* QuoteEngine._round_price
round_price(price) == R(quantize(RMul(price, FromInt(100))), 100)

\* QuoteEngine.calculate_fair_value (use_weighted_mid is True), or None
calculate_fair_value(ob, inv) ==
    IF ~Truthy(mid_price(ob)) THEN None
    ELSE
    LET wm == weighted_mid(ob, 3)
        fv0 == IF wm = None THEN mid_price(ob) ELSE wm
        fv1 == IF Abs(inv) > inventory_skew_threshold
               THEN RSub(fv0, RMul(FromInt(inv), R(1, 10000)))
               ELSE fv0
    IN  RMax(min_price, RMin(max_price, fv1))

\* QuoteEngine.calculate_spread; asf is self._adverse_selection_factor
calculate_spread(ob, inv, vol, hours, asf) ==
    LET s1 == RMul(base_spread, vol)
        s2 == IF Abs(inv) > inventory_skew_threshold
              THEN RMul(s1, RAdd(FromInt(1), R(Abs(inv), inventory_skew_threshold * 4)))
              ELSE s1
        s3 == IF hours # NoHours /\ RLt(hours, FromInt(48))
              THEN RMul(s2, RAdd(FromInt(1),
                        RDiv(FromInt(1), RMax(FromInt(1), RDiv(hours, FromInt(12))))))
              ELSE s2
        bid_depth == SeqSum([i \in 1..Len(Prefix(ob.bids, 5)) |-> ob.bids[i].size])
        ask_depth == SeqSum([i \in 1..Len(Prefix(ob.asks, 5)) |-> ob.asks[i].size])
        s4 == IF RLt(bid_depth, FromInt(100)) \/ RLt(ask_depth, FromInt(100))
              THEN RMul(s3, R(3, 2))
              ELSE s3
        s5 == RMul(s4, asf)
    IN  RMax(min_spread, RMin(max_spread, s5))

\* QuoteEngine.calculate_inventory_skew: the adjustment added to bids and asks
no_inventory_skew(inv) == Zero

calculate_inventory_skew(inv) ==
    IF Abs(inv) <= inventory_skew_threshold THEN Zero
    ELSE RNeg(RMul(R(inv, inventory_skew_threshold), R(5, 1000)))

Quote(price, size, side) == [price |-> price, size |-> size, side |-> side]

NoQuoteSet ==
    [token_id |-> "-", bids |-> <<>>, asks |-> <<>>, fair_value |-> None, spread |-> None]

\* QuoteEngine.calculate_quotes, or NoQuoteSet for None
calculate_quotes(token_id, ob, inv, vol, hours, asf) ==
    LET fair_value == calculate_fair_value(ob, inv)
    IN  IF fair_value = None THEN NoQuoteSet
        ELSE
        LET spread == calculate_spread(ob, inv, vol, hours, asf)
            skew == calculate_inventory_skew(inv)
            half_spread == RDiv(spread, FromInt(2))
            level_offset(level) == RMul(FromInt(level), level_spacing)
            level_size(level) ==
                RMax(FromInt(5), RMul(default_size, RSub(FromInt(1), RMul(FromInt(level), R(2, 10)))))
            bid_price(level) ==
                round_price(RAdd(RSub(RSub(fair_value, half_spread), level_offset(level)), skew))
            ask_price(level) ==
                round_price(RAdd(RAdd(RAdd(fair_value, half_spread), level_offset(level)), skew))
            all_bids == [i \in 1..num_levels |-> Quote(bid_price(i - 1), level_size(i - 1), "BUY")]
            all_asks == [i \in 1..num_levels |-> Quote(ask_price(i - 1), level_size(i - 1), "SELL")]
            kept_bid(q) == RLe(min_price, q.price)
            kept_ask(q) == RLe(q.price, max_price)
        IN  [token_id |-> token_id,
             bids |-> SelectSeq(all_bids, kept_bid),
             asks |-> SelectSeq(all_asks, kept_ask),
             fair_value |-> fair_value,
             spread |-> spread]

\* QuoteEngine.should_quote: <<should_quote, reason>>
should_quote(ob, inv, max_inventory, hours) ==
    IF ~Truthy(mid_price(ob)) THEN <<FALSE, "No orderbook data">>
    ELSE IF Abs(inv) >= max_inventory THEN <<TRUE, "Inventory limit">>
    ELSE IF hours # NoHours /\ RLt(hours, FromInt(1)) THEN <<FALSE, "Too close to expiry">>
    ELSE IF RLt(mid_price(ob), R(2, 100)) \/ RLt(R(98, 100), mid_price(ob))
    THEN <<FALSE, "Price near resolution bounds">>
    ELSE <<TRUE, "OK">>

\* SmartQuoteEngine.update_price_history
update_price_history(history, price) ==
    LET h == Append(history, price)
    IN  IF Len(h) > 100 THEN SubSeq(h, Len(h) - 99, Len(h)) ELSE h

\* SmartQuoteEngine.calculate_realized_volatility for a history of fewer than
\* 10 prices, which is as long as the histories here get (MaxHistory).
calculate_realized_volatility(history) == FromInt(1)

\* SmartQuoteEngine.detect_momentum
detect_momentum(history) ==
    IF Len(history) < 5 THEN Zero
    ELSE
    LET n == Len(history)
        recent == SubSeq(history, n - 4, n)
        older == IF n >= 10 THEN SubSeq(history, n - 9, n - 5) ELSE recent
    IN  RSub(RDiv(SeqSum(recent), FromInt(Len(recent))),
             RDiv(SeqSum(older), FromInt(Len(older))))

\* SmartQuoteEngine.calculate_quotes: the QuoteSet it returns, given the price
\* history as it has just updated it.
smart_calculate_quotes(token_id, ob, inv, vol, hours, asf, history) ==
    LET combined_vol == RDiv(RAdd(vol, calculate_realized_volatility(history)), FromInt(2))
        momentum == detect_momentum(history)
        qs == calculate_quotes(token_id, ob, inv, combined_vol, hours, asf)
    IN  IF qs # NoQuoteSet /\ RLt(R(1, 100), RAbs(momentum))
        THEN [qs EXCEPT !.fair_value = RAdd(@, RMul(momentum, R(1, 10)))]
        ELSE qs

\* The quote engine before any call.
IdleQuoteEngine ==
    /\ price_history = <<>>
    /\ quotes = NoQuoteSet
    /\ should_quote_result = <<FALSE, "">>
    /\ qe_op = "init"

----------------------------------------------------------------------------
(* Simulated venue: paper_simulator.py, MarketState and PaperTradingSimulator *)

\* MarketState(token_id): no book seen yet.  The depth dicts are sets of levels.
NoMarketState == [best_bid |-> None, best_ask |-> None, bid_depth |-> {}, ask_depth |-> {}]

LevelSet(levels) == {levels[i] : i \in 1..Len(levels)}
MaxPriceOf(depth) == CHOOSE p \in {l.price : l \in depth} : \A l \in depth : RLe(l.price, p)
MinPriceOf(depth) == CHOOSE p \in {l.price : l \in depth} : \A l \in depth : RLe(p, l.price)

\* MarketState.update_from_orderbook
update_from_orderbook(ms, ob) ==
    [best_bid |-> IF ob.bids # <<>> THEN MaxPriceOf(LevelSet(ob.bids)) ELSE ms.best_bid,
     best_ask |-> IF ob.asks # <<>> THEN MinPriceOf(LevelSet(ob.asks)) ELSE ms.best_ask,
     bid_depth |-> LevelSet(ob.bids),
     ask_depth |-> LevelSet(ob.asks)]

\* MarketState.get_queue_depth_at_price: the size resting at the price or better
get_queue_depth_at_price(ms, price, side) ==
    LET ahead == IF side = "BUY" THEN {l \in ms.bid_depth : RLe(price, l.price)}
                 ELSE {l \in ms.ask_depth : RLe(l.price, price)}
    IN  RSum([l \in ahead |-> l.size], ahead)

\* QueuedOrder as place_order creates it
QueuedOrder(order_id, token_id, side, price, size, queue_depth) ==
    [order_id |-> order_id, token_id |-> token_id, side |-> side, price |-> price,
     size |-> size, size_matched |-> Zero, status |-> "LIVE",
     queue_position |-> queue_depth, initial_queue_depth |-> queue_depth]

size_remaining(order) == RSub(order.size, order.size_matched)
is_live(order) == order.status \in {"LIVE", "PARTIAL"}

\* PaperTradingSimulator(...) as the client builds it: the default fee rates
maker_fee == Zero
taker_fee == Zero
starting_balance == FromInt(1000)

\* SimulatedTrade; trade_id is the n of "paper_trade_<n>"
SimulatedTrade(trade_id, order, price, size, is_maker, slippage) ==
    [trade_id |-> trade_id, token_id |-> order.token_id, side |-> order.side,
     price |-> price, size |-> size, order_id |-> order.order_id,
     fee |-> RMul(RMul(price, size), IF is_maker THEN maker_fee ELSE taker_fee),
     is_maker |-> is_maker, slippage |-> slippage]

\* PaperTradingSimulator._execute_fill on the simulator's orders and trades
execute_fill(sim, order_id, price, size, is_maker, slippage) ==
    LET order == sim.orders[order_id]
        matched == RAdd(order.size_matched, size)
    IN  [orders |-> [sim.orders EXCEPT ![order_id] =
                        [@ EXCEPT !.size_matched = matched,
                                  !.status = IF RLe(order.size, matched) THEN "MATCHED"
                                                                         ELSE "PARTIAL"]],
         trades |-> Append(sim.trades,
                           SimulatedTrade(Len(sim.trades), order, price, size, is_maker, slippage))]

RECURSIVE crossing_fills_whole_book(_, _, _, _)
\* The walk through the book that does not stop at the limit price.
crossing_fills_whole_book(depth, side, limit, remaining) ==
    IF depth = {} THEN <<>>
    ELSE
    LET price == IF side = "BUY" THEN MinPriceOf(depth) ELSE MaxPriceOf(depth)
        level == CHOOSE l \in depth : l.price = price
        fill_size == RMin(remaining, level.size)
        left == RSub(remaining, fill_size)
    IN  (IF RLt(Zero, fill_size) THEN <<Level(price, fill_size)>> ELSE <<>>)
        \o (IF RLe(left, Zero) THEN <<>>
            ELSE crossing_fills_whole_book(depth \ {level}, side, limit, left))

RECURSIVE crossing_fills(_, _, _, _)
\* The walk through the book of _execute_crossing_order: the (price, size) fills
crossing_fills(depth, side, limit, remaining) ==
    IF depth = {} THEN <<>>
    ELSE
    LET price == IF side = "BUY" THEN MinPriceOf(depth) ELSE MaxPriceOf(depth)
        level == CHOOSE l \in depth : l.price = price
        beyond == IF side = "BUY" THEN RLt(limit, price) ELSE RLt(price, limit)
        fill_size == RMin(remaining, level.size)
        left == RSub(remaining, fill_size)
    IN  IF beyond THEN <<>>
        ELSE (IF RLt(Zero, fill_size) THEN <<Level(price, fill_size)>> ELSE <<>>)
             \o (IF RLe(left, Zero) THEN <<>>
                 ELSE crossing_fills(depth \ {level}, side, limit, left))

RECURSIVE execute_fills(_, _, _)
execute_fills(sim, order_id, fills) ==
    IF fills = <<>> THEN sim
    ELSE execute_fills(execute_fill(sim, order_id, Head(fills).price, Head(fills).size, FALSE,
                                    RAbs(RSub(Head(fills).price, sim.orders[order_id].price))),
                       order_id, Tail(fills))

\* PaperTradingSimulator.place_order with _check_immediate_fill: the simulator
\* afterwards; the new order is the last of its orders.
sim_place_order(sim, ms, token_id, side, price, size) ==
    LET order_id == Len(sim.orders) + 1
        placed == [sim EXCEPT !.orders =
                      Append(@, QueuedOrder(order_id, token_id, side, price, size,
                                            get_queue_depth_at_price(ms, price, side)))]
        is_crossing ==
            \/ side = "BUY" /\ Truthy(ms.best_ask) /\ RLe(ms.best_ask, price)
            \/ side = "SELL" /\ Truthy(ms.best_bid) /\ RLe(price, ms.best_bid)
        fills == IF ~is_crossing THEN <<>>
                 ELSE crossing_fills(IF side = "BUY" THEN ms.ask_depth ELSE ms.bid_depth,
                                     side, price, size)
        crossed == execute_fills(placed, order_id, fills)
    IN  IF is_crossing /\ RLt(Zero, size_remaining(crossed.orders[order_id]))
        THEN [crossed EXCEPT !.orders[order_id].queue_position = Zero]
        ELSE crossed

\* A resting fill of the whole expected size, the order's remainder ignored.
resting_fill_size_unbounded(order, expected_fill) == expected_fill

\* The fill size of _check_resting_fill with partial fills enabled;
\* expected_fill is max(1, half a second of volume).
resting_fill_size(order, expected_fill) == RMin(size_remaining(order), expected_fill)

\* PaperTradingSimulator.cancel_order: <<simulator afterwards, success>>
sim_cancel_order(sim, order_id) ==
    IF order_id \in 1..Len(sim.orders) /\ is_live(sim.orders[order_id])
    THEN <<[sim EXCEPT !.orders[order_id].status = "CANCELLED"], TRUE>>
    ELSE <<sim, FALSE>>

\* token_id None: every token
NoToken == "-"

\* cancel_all_orders that cancels nothing at the venue.
sim_cancel_no_orders(sim, token_id) == sim

\* PaperTradingSimulator.cancel_all_orders(token_id)
sim_cancel_all_orders(sim, token_id) ==
    [sim EXCEPT !.orders =
        [i \in 1..Len(sim.orders) |->
            IF is_live(sim.orders[i]) /\ (token_id = NoToken \/ sim.orders[i].token_id = token_id)
            THEN [sim.orders[i] EXCEPT !.status = "CANCELLED"]
            ELSE sim.orders[i]]]

----------------------------------------------------------------------------
(* Simulated venue, in full: balance, positions, statistics, the price      *)
(* history and the volume window of a market, and the fill probability      *)

BASE_FILL_PROB_PER_SECOND == R(2, 100)
ADVERSE_SELECTION_MULTIPLIER == FromInt(3)
FAVORABLE_SELECTION_MULTIPLIER == R(3, 10)
\* update_from_orderbook keeps the mids of the last 5 minutes, in seconds
price_history_window == 300
\* record_market_trade starts a new volume window after a minute, in seconds
volume_window == 60

\* PaperTradingSimulator.stats at construction
NoStats ==
    [orders_placed |-> 0, orders_filled |-> 0, orders_partial |-> 0, orders_cancelled |-> 0,
     total_volume |-> Zero, maker_volume |-> Zero, taker_volume |-> Zero, total_fees |-> Zero,
     adverse_fills |-> 0, favorable_fills |-> 0]

\* The price history update_from_orderbook leaves at time now_: the mid of the
\* best prices (a side the snapshot lacks keeps its old best) appended, then
\* the entries older than the window dropped.
update_price_history_from_orderbook(history, ms_after, now_) ==
    IF Truthy(ms_after.best_bid) /\ Truthy(ms_after.best_ask)
    THEN LET mid == RDiv(RAdd(ms_after.best_bid, ms_after.best_ask), FromInt(2))
         IN  SelectSeq(Append(history, [t |-> now_, mid |-> mid]),
                       LAMBDA e : e.t > now_ - price_history_window)
    ELSE history

\* MarketState.record_market_trade on [recent_volume, volume_window_start, trade_count]
record_market_trade(volume, size, now_) ==
    LET v == IF now_ - volume.volume_window_start > volume_window
             THEN [recent_volume |-> Zero, volume_window_start |-> now_, trade_count |-> 0]
             ELSE volume
    IN  [v EXCEPT !.recent_volume = RAdd(@, size), !.trade_count = @ + 1]

\* MarketState.get_volume_per_second
get_volume_per_second(volume, now_) ==
    RDiv(volume.recent_volume, FromInt(Max(1, now_ - volume.volume_window_start)))

\* MarketState.get_price_move: the last mid less the mid of the last entry
\* not after since, zero when the history holds fewer than 2 entries or none
\* that old.
get_price_move(history, since) ==
    LET old == {i \in 1..Len(history) : history[i].t <= since}
    IN  IF Len(history) < 2 \/ old = {} THEN Zero
        ELSE RSub(history[Len(history)].mid,
                  history[CHOOSE i \in old : \A j \in old : j <= i].mid)

\* The adverse-selection branch of _calculate_fill_probability
selection_multiplier(side, price_move) ==
    IF price_move = Zero THEN FromInt(1)
    ELSE IF (side = "BUY") = RLt(price_move, Zero) THEN ADVERSE_SELECTION_MULTIPLIER
    ELSE FAVORABLE_SELECTION_MULTIPLIER

\* The queue factor of _calculate_fill_probability
queue_factor(order) ==
    IF RLt(Zero, order.initial_queue_depth)
    THEN LET progress == RSub(FromInt(1), RDiv(order.queue_position, order.initial_queue_depth))
         IN  RAdd(R(2, 10), RMul(RMax(Zero, RMin(FromInt(1), progress)), R(8, 10)))
    ELSE FromInt(1)

\* PaperTradingSimulator._calculate_fill_probability (adverse selection
\* enabled): the probability, and whether it set _is_adverse
calculate_fill_probability(order, created_at, history, volume, now_) ==
    LET vol_per_sec == get_volume_per_second(volume, now_)
        volume_factor == IF RLt(Zero, vol_per_sec)
                         THEN RAdd(FromInt(1), RMin(FromInt(3), RDiv(vol_per_sec, FromInt(10))))
                         ELSE FromInt(1)
        price_move == get_price_move(history, created_at)
        multiplier == selection_multiplier(order.side, price_move)
        base_prob == RMul(RMul(RMul(RDiv(BASE_FILL_PROB_PER_SECOND, FromInt(2)), volume_factor),
                               queue_factor(order)), multiplier)
    IN  [prob |-> RMin(FromInt(1), base_prob),
         price_move |-> price_move,
         adverse |-> multiplier = ADVERSE_SELECTION_MULTIPLIER]

\* _execute_fill that books a fill on the order and the trades only.
simulator_execute_fill_unbooked(S, order_id, price, size, is_maker, slippage) ==
    LET core == execute_fill([orders |-> S.orders, trades |-> S.trades],
                             order_id, price, size, is_maker, slippage)
    IN  [S EXCEPT !.orders = core.orders, !.trades = core.trades]

\* PaperTradingSimulator._execute_fill on the whole simulator: the order and
\* the trade as execute_fill has them, then positions, balance and statistics.
simulator_execute_fill(S, order_id, price, size, is_maker, slippage) ==
    LET core == execute_fill([orders |-> S.orders, trades |-> S.trades],
                             order_id, price, size, is_maker, slippage)
        order == core.orders[order_id]
        trade == core.trades[Len(core.trades)]
        buy == order.side = "BUY"
        cash == RMul(price, size)
    IN  [orders |-> core.orders,
         trades |-> core.trades,
         positions |-> [S.positions EXCEPT ![order.token_id] =
                           IF buy THEN RAdd(@, size) ELSE RSub(@, size)],
         balance |-> IF buy THEN RSub(S.balance, RAdd(cash, trade.fee))
                     ELSE RAdd(S.balance, RSub(cash, trade.fee)),
         stats |-> [S.stats EXCEPT
                       !.orders_filled = IF order.status = "MATCHED" THEN @ + 1 ELSE @,
                       !.orders_partial = IF order.status = "MATCHED" THEN @ ELSE @ + 1,
                       !.total_volume = RAdd(@, size),
                       !.total_fees = RAdd(@, trade.fee),
                       !.maker_volume = IF is_maker THEN RAdd(@, size) ELSE @,
                       !.taker_volume = IF is_maker THEN @ ELSE RAdd(@, size),
                       !.adverse_fills = IF S.is_adverse THEN @ + 1 ELSE @,
                       !.favorable_fills = IF S.is_adverse THEN @ ELSE @ + 1],
         is_adverse |-> FALSE]

RECURSIVE simulator_execute_fills(_, _, _)
\* The fills of _execute_crossing_order, each a taker fill with its slippage
simulator_execute_fills(S, order_id, fills) ==
    IF fills = <<>> THEN S
    ELSE simulator_execute_fills(
             simulator_execute_fill(S, order_id, Head(fills).price, Head(fills).size, FALSE,
                                    RAbs(RSub(Head(fills).price, S.orders[order_id].price))),
             order_id, Tail(fills))

\* The fills of a new order: those of crossing_fills when it crosses
immediate_fills(ms, side, price, size) ==
    IF \/ side = "BUY" /\ Truthy(ms.best_ask) /\ RLe(ms.best_ask, price)
       \/ side = "SELL" /\ Truthy(ms.best_bid) /\ RLe(price, ms.best_bid)
    THEN <<TRUE, crossing_fills(IF side = "BUY" THEN ms.ask_depth ELSE ms.bid_depth,
                                side, price, size)>>
    ELSE <<FALSE, <<>>>>

\* PaperTradingSimulator.place_order on the whole simulator
simulator_place_order(S, ms, token_id, side, price, size) ==
    LET order_id == Len(S.orders) + 1
        placed == [S EXCEPT !.orders =
                      Append(@, QueuedOrder(order_id, token_id, side, price, size,
                                            get_queue_depth_at_price(ms, price, side))),
                            !.stats.orders_placed = @ + 1]
        crossing == immediate_fills(ms, side, price, size)
        crossed == simulator_execute_fills(placed, order_id, crossing[2])
    IN  IF crossing[1] /\ RLt(Zero, size_remaining(crossed.orders[order_id]))
        THEN [crossed EXCEPT !.orders[order_id].queue_position = Zero]
        ELSE crossed

\* cancel_order that hands the unfilled value of a BUY back to the balance.
simulator_cancel_order_refunding(S, order_id) ==
    LET res == sim_cancel_order([orders |-> S.orders, trades |-> S.trades], order_id)
    IN  IF res[2]
        THEN [S EXCEPT !.orders = res[1].orders, !.stats.orders_cancelled = @ + 1,
                       !.balance = RAdd(@, RMul(S.orders[order_id].price,
                                                size_remaining(S.orders[order_id])))]
        ELSE S

\* PaperTradingSimulator.cancel_order on the whole simulator
simulator_cancel_order(S, order_id) ==
    LET res == sim_cancel_order([orders |-> S.orders, trades |-> S.trades], order_id)
    IN  IF res[2]
        THEN [S EXCEPT !.orders = res[1].orders, !.stats.orders_cancelled = @ + 1]
        ELSE S

\* PaperTradingSimulator._check_resting_fill on a live order of a known
\* market; lucky tells whether random.random() came out at most the fill
\* probability.
check_resting_fill(S, order_id, created_at, history, volume, now_, lucky) ==
    LET order == S.orders[order_id]
        p == calculate_fill_probability(order, created_at, history, volume, now_)
        evaluated == [S EXCEPT !.is_adverse = @ \/ p.adverse]
        expected_fill == RMax(FromInt(1), RMul(get_volume_per_second(volume, now_), R(1, 2)))
    IN  IF lucky
        THEN simulator_execute_fill(evaluated, order_id, order.price,
                                    resting_fill_size(order, expected_fill), TRUE, Zero)
        ELSE evaluated

----------------------------------------------------------------------------
(* Order Manager: order_manager.py, OrderManager *)

\* ManagedOrder around the Order that client.place_order returned: a copy of
\* the venue's order as it was when the call returned.
ManagedOrder(order, placed_at) ==
    [order_id |-> order.order_id, side |-> order.side, price |-> order.price,
     size |-> order.size, status |-> order.status, placed_at |-> placed_at]

QuoteKey(q) == <<q.price, q.size>>
QuoteKeys(qs) == {QuoteKey(qs[i]) : i \in 1..Len(qs)}

RECURSIVE match_existing(_, _, _, _)
\* The first loop of _update_side: the LIVE orders to keep, those to cancel, and
\* the desired keys no kept order covers.
match_existing(current_orders, desired_quotes, orders_to_keep, orders_to_cancel) ==
    IF current_orders = <<>>
    THEN [keep |-> orders_to_keep, cancel |-> orders_to_cancel, desired |-> desired_quotes]
    ELSE
    LET managed == Head(current_orders)
    IN  IF managed.status # "LIVE"
        THEN match_existing(Tail(current_orders), desired_quotes, orders_to_keep, orders_to_cancel)
        ELSE IF QuoteKey(managed) \in desired_quotes
        THEN match_existing(Tail(current_orders), desired_quotes \ {QuoteKey(managed)},
                            Append(orders_to_keep, managed), orders_to_cancel)
        ELSE match_existing(Tail(current_orders), desired_quotes,
                            orders_to_keep, Append(orders_to_cancel, managed))

RECURSIVE cancel_each(_, _)
\* _cancel_order on each order of a list, at the venue
cancel_each(managed_orders, sim) ==
    IF managed_orders = <<>> THEN sim
    ELSE cancel_each(Tail(managed_orders), sim_cancel_order(sim, Head(managed_orders).order_id)[1])

\* A request the Order Manager sends to the venue: a cancel names the order,
\* a place the quote.
CancelRequest(order_id) == [kind |-> "cancel", order_id |-> order_id, price |-> Zero, size |-> Zero]
PlaceRequest(quote) == [kind |-> "place", order_id |-> 0, price |-> quote.price, size |-> quote.size]
NoRequests == [s \in Sides |-> <<>>]

RECURSIVE place_each(_, _, _, _, _, _, _, _)
\* The last loop of _update_side.  accepts tells whether client.place_order
\* returns an Order or None; rejected collects the keys whose placement gave
\* no LIVE order.
place_each(new_quotes, desired_quotes, st, ms, token_id, side, now_, accepts) ==
    IF new_quotes = <<>> THEN st
    ELSE
    LET quote == Head(new_quotes)
        rest == Tail(new_quotes)
    IN  IF QuoteKey(quote) \notin desired_quotes
        THEN place_each(rest, desired_quotes, st, ms, token_id, side, now_, accepts)
        ELSE IF ~accepts
        THEN place_each(rest, desired_quotes,
                        [st EXCEPT !.rejected = @ \cup {QuoteKey(quote)},
                                   !.requests = Append(@, PlaceRequest(quote))],
                        ms, token_id, side, now_, accepts)
        ELSE
        LET sim2 == sim_place_order(st.sim, ms, token_id, side, quote.price, quote.size)
            order == sim2.orders[Len(sim2.orders)]
        IN  place_each(rest, desired_quotes,
                       [sim |-> sim2,
                        keep |-> Append(st.keep, ManagedOrder(order, now_)),
                        placed |-> st.placed + 1,
                        rejected |-> IF order.status = "LIVE" THEN st.rejected
                                     ELSE st.rejected \cup {QuoteKey(quote)},
                        requests |-> Append(st.requests, PlaceRequest(quote))],
                       ms, token_id, side, now_, accepts)

\* _update_side without its cancel loop: the LIVE orders that match no desired
\* quote stay tracked and stay at the venue.
update_side_without_cancel(current_orders, sim, ms, token_id, side, new_quotes, now_, accepts) ==
    LET m == match_existing(current_orders, QuoteKeys(new_quotes), <<>>, <<>>)
    IN  place_each(new_quotes, m.desired,
                   [sim |-> sim, keep |-> m.keep \o m.cancel, placed |-> 0, rejected |-> {},
                    requests |-> <<>>],
                   ms, token_id, side, now_, accepts)

\* The cancel requests of the cancel loop of _update_side
cancel_requests(orders_to_cancel) ==
    [i \in 1..Len(orders_to_cancel) |-> CancelRequest(orders_to_cancel[i].order_id)]

\* _update_side with its two loops exchanged: the placements first, then the
\* cancels.
update_side_place_before_cancel(current_orders, sim, ms, token_id, side, new_quotes, now_, accepts) ==
    LET m == match_existing(current_orders, QuoteKeys(new_quotes), <<>>, <<>>)
        placed == place_each(new_quotes, m.desired,
                             [sim |-> sim, keep |-> m.keep, placed |-> 0, rejected |-> {},
                              requests |-> <<>>],
                             ms, token_id, side, now_, accepts)
    IN  [placed EXCEPT !.sim = cancel_each(m.cancel, @),
                       !.requests = @ \o cancel_requests(m.cancel)]

\* OrderManager._update_side: the tracked orders of the side afterwards (keep),
\* the venue afterwards (sim), the number of orders placed, and the requests
\* it sent to the venue, in order.
update_side(current_orders, sim, ms, token_id, side, new_quotes, now_, accepts) ==
    LET m == match_existing(current_orders, QuoteKeys(new_quotes), <<>>, <<>>)
        sim1 == cancel_each(m.cancel, sim)
    IN  place_each(new_quotes, m.desired,
                   [sim |-> sim1, keep |-> m.keep, placed |-> 0, rejected |-> {},
                    requests |-> cancel_requests(m.cancel)],
                   ms, token_id, side, now_, accepts)

\* The age test of OrderManager.cancel_stale_orders
is_stale(managed, now_, timeout) ==
    managed.status = "LIVE" /\ now_ - managed.placed_at > timeout

RECURSIVE cancel_stale_each(_, _, _, _)
\* cancel_stale_orders on one tracked list: the list and the venue afterwards.
\* _cancel_order marks an order CANCELLED only when the venue reports the
\* cancel done.
cancel_stale_each(managed_orders, sim, now_, timeout) ==
    IF managed_orders = <<>> THEN [orders |-> <<>>, sim |-> sim]
    ELSE
    LET managed == Head(managed_orders)
        res == IF is_stale(managed, now_, timeout)
               THEN sim_cancel_order(sim, managed.order_id)
               ELSE <<sim, FALSE>>
        tail == cancel_stale_each(Tail(managed_orders), res[1], now_, timeout)
    IN  [orders |-> <<IF res[2] THEN [managed EXCEPT !.status = "CANCELLED"] ELSE managed>>
                    \o tail.orders,
         sim |-> tail.sim]

\* The LIVE orders of a tracked list
live_orders(managed_orders) == SelectSeq(managed_orders, LAMBDA m : m.status = "LIVE")

\* PaperTradingSimulator.get_orders(token_id, "LIVE"), as the ids of the orders
\* it returns: the venue counts LIVE and PARTIAL orders as live.
sim_get_live_ids(orders, token_id) ==
    {i \in 1..Len(orders) : orders[i].token_id = token_id /\ orders[i].status \in {"LIVE", "PARTIAL"}}

\* sync_with_exchange that drops the records the venue no longer lists but
\* leaves their status as it was.
sync_side_without_marking(managed_orders, exchange_ids) ==
    [updated |-> SelectSeq(managed_orders, LAMBDA m : m.order_id \in exchange_ids),
     dropped |-> SelectSeq(managed_orders, LAMBDA m : m.order_id \notin exchange_ids)]

\* The loop of OrderManager.sync_with_exchange over one side: the records that
\* stay tracked (updated) and the records dropped, a dropped record that was
\* LIVE now marked UNKNOWN.
sync_side(managed_orders, exchange_ids) ==
    LET absent == SelectSeq(managed_orders, LAMBDA m : m.order_id \notin exchange_ids)
    IN  [updated |-> SelectSeq(managed_orders, LAMBDA m : m.order_id \in exchange_ids),
         dropped |-> [i \in 1..Len(absent) |->
                        IF absent[i].status = "LIVE"
                        THEN [absent[i] EXCEPT !.status = "UNKNOWN"]
                        ELSE absent[i]]]

\* No sync_with_exchange in the last operation
NoSync == [exchange_ids |-> {}, dropped |-> [s \in Sides |-> <<>>]]

RECURSIVE cancel_all_tokens(_, _, _)
\* The loop of OrderManager.cancel_all_orders over the tokens it tracks:
\* _cancel_order on every LIVE record, then the token's records dropped.
cancel_all_tokens(orders, sim, tokens) ==
    IF tokens = {} THEN [orders |-> orders, sim |-> sim]
    ELSE LET tid == CHOOSE t \in tokens : TRUE
             sim1 == cancel_each(live_orders(orders[tid]["BUY"]), sim)
             sim2 == cancel_each(live_orders(orders[tid]["SELL"]), sim1)
         IN  cancel_all_tokens([orders EXCEPT ![tid] = [s \in Sides |-> <<>>]],
                               sim2, tokens \ {tid})

\* OrderManager.cancel_all_orders(): every token, then client.cancel_all_orders
om_cancel_all_orders(orders, sim) ==
    LET own == cancel_all_tokens(orders, sim, DOMAIN orders)
    IN  [orders |-> own.orders, sim |-> sim_cancel_all_orders(own.sim, NoToken)]

\* The bot running, between two ticks
IdleBot ==
    /\ running = TRUE
    /\ lifecycle = "idle"

\* The Order Manager and the venue before any order.
InitOM ==
    /\ om_orders = [a \in Tokens |-> [s \in Sides |-> <<>>]]
    /\ sim_orders = <<>>
    /\ sim_trades = <<>>
    /\ market_states = [a \in Tokens |-> NoMarketState]
    /\ now = 0
    /\ om_op = [name |-> "init", token_id |-> "-", bids |-> <<>>, asks |-> <<>>,
             requests |-> NoRequests]
    /\ om_rejected = [s \in Sides |-> {}]
    /\ om_sync = NoSync

----------------------------------------------------------------------------
(* Control loop: bot.py, MarketMakingBot *)

\* MarketMakingBot.target_markets
target_markets == <<"A", "B">>
\* The limit of the get_trades call in _check_fills (bot.py:368)
TradesLimit == 20

\* RiskManager.calculate_size_adjustment
calculate_size_adjustment(ps, token_id, side, base_size) ==
    LET current_qty == ps[token_id].quantity
        reduction == RMin(R(1, 2), R(Abs(current_qty), max_inventory_imbalance))
    IN  IF \/ side = "BUY" /\ 2 * current_qty > max_inventory_imbalance
           \/ side = "SELL" /\ 2 * current_qty < -max_inventory_imbalance
        THEN RMul(base_size, RSub(FromInt(1), reduction))
        ELSE base_size

\* The risk filter of _update_quotes_for_market: each quote with its size
\* adjusted, kept when check_order_allowed allows it.
filter_quotes(ps, is_halted, reason, token_id, qs) ==
    LET adjusted == [i \in 1..Len(qs) |->
                        [token_id |-> token_id, side |-> qs[i].side, price |-> qs[i].price,
                         size |-> calculate_size_adjustment(ps, token_id, qs[i].side, qs[i].size)]]
        allowed(q) == check_order_allowed(ps, is_halted, reason, token_id, q.side, q.size, q.price)[1]
    IN  SelectSeq(adjusted, allowed)

\* trades[-limit:]
LastTrades(trades, limit) ==
    IF Len(trades) <= limit THEN trades ELSE SubSeq(trades, Len(trades) - limit + 1, Len(trades))

RECURSIVE apply_trades(_, _)
\* The loop of _check_fills: update_position for each trade in turn
apply_trades(ps, trades) ==
    IF trades = <<>> THEN ps
    ELSE apply_trades(update_position(ps, Head(trades)), Tail(trades))

RECURSIVE cash_of(_, _, _)
\* sum of price x size over the trades of a token and side
cash_of(trades, token_id, side) ==
    IF trades = <<>> THEN Zero
    ELSE LET t == Head(trades)
         IN  RAdd(IF t.token_id = token_id /\ t.side = side THEN RMul(t.price, t.size) ELSE Zero,
                  cash_of(Tail(trades), token_id, side))

\* The control loop before its first tick, in polling mode.
IdleLoop ==
    /\ mode = "polling"
    /\ pc = "idle"
    /\ markets_to_update = <<>>
    /\ place_queue = <<>>
    /\ pending_quote_updates = [a \in Assets |-> FALSE]
    /\ applied = <<>>
    /\ polls = 0

----------------------------------------------------------------------------
(* Fallback paper store: client.py, PolymarketClient._paper_* *)

\* Order as _paper_place_order creates it
PaperOrder(order_id, token_id, side, price, size) ==
    [order_id |-> order_id, token_id |-> token_id, side |-> side, price |-> price,
     size |-> size, size_matched |-> Zero, status |-> "LIVE"]

\* _paper_check_fills on the order just placed: have_book tells whether
\* get_orderbook returned a book, lucky whether random.random() < 0.1.
paper_check_fills(orders, trades, order_id, have_book, ob, lucky) ==
    LET order == orders[order_id]
        crosses == IF order.side = "BUY"
                   THEN Truthy(best_ask(ob)) /\ RLe(best_ask(ob), order.price)
                   ELSE Truthy(best_bid(ob)) /\ RLe(order.price, best_bid(ob))
        fill_price == IF crosses
                      THEN (IF order.side = "BUY" THEN best_ask(ob) ELSE best_bid(ob))
                      ELSE order.price
    IN  IF have_book /\ (crosses \/ lucky)
        THEN [orders |-> [orders EXCEPT ![order_id] =
                             [@ EXCEPT !.size_matched = order.size, !.status = "MATCHED"]],
              trades |-> Append(trades,
                                [trade_id |-> Len(trades), token_id |-> order.token_id,
                                 side |-> order.side, price |-> fill_price,
                                 size |-> RSub(order.size, order.size_matched),
                                 order_id |-> order_id])]
        ELSE [orders |-> orders, trades |-> trades]

\* _paper_place_order
paper_place_order(orders, trades, token_id, side, price, size, have_book, ob, lucky) ==
    paper_check_fills(Append(orders, PaperOrder(Len(orders) + 1, token_id, side, price, size)),
                      trades, Len(orders) + 1, have_book, ob, lucky)

\* _paper_cancel_order: the store afterwards
paper_cancel_order(orders, order_id) ==
    IF order_id \in 1..Len(orders)
    THEN [orders EXCEPT ![order_id].status = "CANCELLED"]
    ELSE orders

\* _paper_cancel_all_orders(token_id)
paper_cancel_all_orders(orders, token_id) ==
    [i \in 1..Len(orders) |->
        IF orders[i].status = "LIVE" /\ orders[i].token_id = token_id
        THEN [orders[i] EXCEPT !.status = "CANCELLED"]
        ELSE orders[i]]

\* _handle_ws_user_order in paper mode
handle_ws_user_order(orders, order_id, size_matched, original_size, event_type) ==
    IF order_id \notin 1..Len(orders) THEN orders
    ELSE [orders EXCEPT ![order_id] =
            [@ EXCEPT !.size_matched = size_matched,
                      !.status = IF event_type = "CANCELLATION" THEN "CANCELLED"
                                 ELSE IF RLe(original_size, size_matched) THEN "MATCHED"
                                 ELSE @]]

\* The fallback store before any order
IdlePaper ==
    /\ paper_orders = <<>>
    /\ paper_trades = <<>>
    /\ paper_op = "init"

----------------------------------------------------------------------------
(* Cashout: api/server.py, cashout *)

Leg(leg, token_id, side, size, price) ==
    [leg |-> leg, token_id |-> token_id, side |-> side, size |-> size, price |-> price]

NoReply == [status |-> 0, orders_cancelled |-> 0, positions_closed |-> <<>>]

\* No cashout requested yet
NoCashout ==
    /\ cashout_legs = <<>>
    /\ cashout_reply = NoReply

\* The closing order of step 2 for a position: SELL |qty| at the best bid for a
\* long, BUY |qty| at the best ask for a short, at avg_entry_price when the bot
\* holds no book, or no such side, for the token.
closing_order(token_id, position, ms) ==
    LET long == position.quantity > 0
        depth == IF long THEN ms.bid_depth ELSE ms.ask_depth
    IN  Leg("close", token_id,
            IF long THEN "SELL" ELSE "BUY",
            FromInt(Abs(position.quantity)),
            IF depth # {} THEN (IF long THEN MaxPriceOf(depth) ELSE MinPriceOf(depth))
            ELSE position.avg_entry_price)

\* The number of records get_live_orders() returns
count_live_orders(orders) ==
    LET n[tokens \in SUBSET (DOMAIN orders)] ==
            IF tokens = {} THEN 0
            ELSE LET tid == CHOOSE t \in tokens : TRUE
                 IN  Len(live_orders(orders[tid]["BUY"])) + Len(live_orders(orders[tid]["SELL"]))
                     + n[tokens \ {tid}]
    IN  n[DOMAIN orders]

RECURSIVE close_positions(_, _, _, _, _)
\* Step 2 of cashout over the non-zero positions, in the order of tokens.
\* outcome[token] is what client.place_order does for the token's closing
\* order: "order" (an Order comes back), "none" (None comes back), "raises".
\* push tells whether the simulator's fill callback reaches the ledger.
close_positions(st, tokens, mss, outcome, push) ==
    IF tokens = <<>> \/ st.raised THEN st
    ELSE
    LET tid == Head(tokens)
        position == st.positions[tid]
        ms == IF tid \in DOMAIN mss THEN mss[tid] ELSE NoMarketState
        leg == closing_order(tid, position, ms)
        sim1 == IF outcome[tid] = "order"
                THEN sim_place_order(st.sim, ms, tid, leg.side, leg.price, leg.size)
                ELSE st.sim
        fills == SubSeq(sim1.trades, Len(st.sim.trades) + 1, Len(sim1.trades))
    IN  IF position.quantity = 0
        THEN close_positions(st, Tail(tokens), mss, outcome, push)
        ELSE IF outcome[tid] = "raises"
        THEN [st EXCEPT !.legs = Append(@, leg), !.raised = TRUE]
        ELSE close_positions(
                 [st EXCEPT !.legs = Append(@, leg),
                            !.closed = Append(@, leg),
                            !.sim = sim1,
                            !.fills = @ \o fills,
                            !.positions = IF push THEN apply_trades(@, fills) ELSE @],
                 Tail(tokens), mss, outcome, push)

\* Step 3 and the reply, given what steps 1 and 2 left behind. An exception
\* in step 2 is answered 500 and step 3 is skipped; otherwise stop_bot runs
\* the bot's _cleanup, which cancels every order again.
cashout_finish(cancelled, closing) ==
    IF closing.raised
    THEN [positions |-> closing.positions, orders |-> cancelled.orders, sim |-> closing.sim,
          fills |-> closing.fills, legs |-> closing.legs, stopped |-> FALSE,
          reply |-> [status |-> 500, orders_cancelled |-> 0, positions_closed |-> <<>>]]
    ELSE
    LET S == { [positions |-> closing.positions, orders |-> stopped.orders, sim |-> stopped.sim,
                fills |-> closing.fills,
                legs |-> Append(closing.legs, Leg("stop_bot", NoToken, "-", Zero, Zero)),
                stopped |-> TRUE,
                reply |-> [status |-> 200,
                           orders_cancelled |-> count_live_orders(cancelled.orders),
                           positions_closed |-> closing.closed]]
               : stopped \in {om_cancel_all_orders(cancelled.orders, closing.sim)} }
    IN  CHOOSE r \in S : TRUE

\* Steps 1 and 2, then cashout_finish
cashout_close(ps, cancelled, mss, outcome, push) ==
    LET S == { cashout_finish(cancelled, closing) :
               closing \in {close_positions(
                               [positions |-> ps, sim |-> cancelled.sim, raised |-> FALSE,
                                legs |-> <<Leg("cancel_all_orders", NoToken, "-", Zero, Zero)>>,
                                closed |-> <<>>, fills |-> <<>>],
                               target_markets, mss, outcome, push)} }
    IN  CHOOSE r \in S : TRUE

\* The cashout handler: the ledger, the Order Manager and the venue afterwards,
\* the legs it attempted, its reply, and whether it stopped the bot.
cashout(ps, orders, sim, mss, outcome, push) ==
    LET S == { cashout_close(ps, cancelled, mss, outcome, push) :
               cancelled \in {om_cancel_all_orders(orders, sim)} }
    IN  CHOOSE r \in S : TRUE

----------------------------------------------------------------------------
(* Push feed: websocket.py, PolymarketWebSocket, and the client's handlers *)
(* of its events (client.py)                                              *)

NoBook == [bids |-> <<>>, asks |-> <<>>, cached |-> FALSE]

RemoveAt(seq, i) == SubSeq(seq, 1, i - 1) \o SubSeq(seq, i + 1, Len(seq))

RECURSIVE sort_levels(_, _)
\* list.sort(key=price, reverse=reverse): stable, levels of one price keep
\* their order
sort_levels(levels, reverse) ==
    IF levels = <<>> THEN <<>>
    ELSE LET first(i) == \A j \in 1..Len(levels) :
                           IF reverse THEN RLe(levels[j].price, levels[i].price)
                           ELSE RLe(levels[i].price, levels[j].price)
             i == CHOOSE k \in 1..Len(levels) :
                      first(k) /\ \A j \in 1..(k - 1) : ~first(j)
         IN  <<levels[i]>> \o sort_levels(RemoveAt(levels, i), reverse)

\* PolymarketWebSocket._handle_book_event: the snapshot it caches
book_snapshot(event) ==
    [bids |-> sort_levels(event.bids, TRUE), asks |-> sort_levels(event.asks, FALSE),
     cached |-> TRUE]

\* PolymarketClient._handle_ws_book: the OrderBook of dicts built from a snapshot
ws_book(snapshot) ==
    [bids |-> [i \in 1..Len(snapshot.bids) |->
                  [price |-> snapshot.bids[i].price, size |-> snapshot.bids[i].size]],
     asks |-> [i \in 1..Len(snapshot.asks) |->
                  [price |-> snapshot.asks[i].price, size |-> snapshot.asks[i].size]],
     cached |-> TRUE]

PriceChange(side, price, size) == [side |-> side, price |-> price, size |-> size]

\* The delta that appends a level whatever its size.
apply_price_change_appending(book, change) ==
    IF ~book.cached THEN book
    ELSE LET side == IF change.side = "BUY" THEN "bids" ELSE "asks"
         IN  [book EXCEPT ![side] = sort_levels(Append(@, Level(change.price, change.size)),
                                                change.side = "BUY")]

\* PolymarketWebSocket._apply_price_change on the feed's cached book
apply_price_change(book, change) ==
    IF ~book.cached THEN book
    ELSE LET side == IF change.side = "BUY" THEN "bids" ELSE "asks"
             levels == book[side]
             found == {i \in 1..Len(levels) : levels[i].price = change.price}
             i == CHOOSE k \in found : \A j \in found : k <= j
         IN  [book EXCEPT ![side] =
                 IF found # {}
                 THEN IF change.size = Zero THEN RemoveAt(levels, i)
                      ELSE [levels EXCEPT ![i].size = change.size]
                 ELSE IF RLt(Zero, change.size)
                      THEN sort_levels(Append(levels, Level(change.price, change.size)),
                                       change.side = "BUY")
                      ELSE levels]

\* PolymarketClient._handle_ws_price_change on the client's cached book
handle_ws_price_change(book, change) ==
    IF ~book.cached THEN book
    ELSE LET side == IF change.side = "BUY" THEN "bids" ELSE "asks"
             levels == book[side]
             found == {i \in 1..Len(levels) : levels[i]["price"] = change.price}
             i == CHOOSE k \in found : \A j \in found : k <= j
         IN  [book EXCEPT ![side] =
                 IF found # {}
                 THEN IF change.size = Zero THEN RemoveAt(levels, i)
                      ELSE [levels EXCEPT ![i]["size"] = change.size]
                 ELSE IF RLt(Zero, change.size)
                      THEN sort_levels(Append(levels, [price |-> change.price, size |-> change.size]),
                                       change.side = "BUY")
                      ELSE levels]

\* PolymarketWebSocket(...) defaults
reconnect_interval == 5
max_reconnect_attempts == 10
max_wait_time == 60

\* The wait before the next attempt: min(reconnect_interval * 2 ** count, 60.0)
wait_time(count) == Min(reconnect_interval * (2 ^ count), max_wait_time)

Channels == {"market", "user"}
NoChannel == [pc |-> "connecting", wait_time |-> 0, failures |-> 0, subscribed |-> FALSE]

----------------------------------------------------------------------------
(* Components exercised on their own, before any call *)

\* PolymarketWebSocket.__init__ and start: no book cached, both runners about
\* to connect
IdleFeed ==
    /\ ws_orderbooks = NoBook
    /\ client_ws_orderbooks = NoBook
    /\ last_change = [side \in Sides |-> {}]
    /\ feed_op = [name |-> "-"]
    /\ reconnect_count = 0
    /\ channels = [c \in Channels |-> NoChannel]
    /\ snapshot_seen = FALSE

Tasks == {"t1", "t2"}

\* A coroutine of the Order Manager that is not running.  dict is the dict it
\* took from _orders (an index into om_dicts), iter the orders its loop has
\* still to visit, keep and place the orders_to_keep and the quotes left of
\* _update_side, started its datetime.utcnow().
IdleTask ==
    [op |-> "-", pc |-> "idle", dict |-> 0, side |-> "-", iter |-> <<>>, keep |-> <<>>,
     place |-> <<>>, desired |-> {}, bids |-> <<>>, asks |-> <<>>, started |-> 0]

NoOrdersDict == [s \in Sides |-> <<>>]

\* OrderManager.__init__, and _get_orders_for_token on its first call
IdleAsync ==
    /\ om_tasks = [t \in Tasks |-> IdleTask]
    /\ om_pending_cancels = {}
    /\ om_objects = <<>>
    /\ om_dicts = <<NoOrdersDict>>
    /\ venue_requests = {}
    /\ om_skipped = {}
    /\ om_cancelled_all = FALSE

\* _round_price not called
IdleRound ==
    /\ unrounded_price = Zero
    /\ rounded_price = None

\* before: for place_order, and for a cancel_order that follows the placement
\* of its order at once, the balance, the positions and the ledger as the
\* placement found them
NoSimOp ==
    [name |-> "-", order_id |-> 0, prob |-> None, price_move |-> Zero, adverse |-> FALSE,
     filled |-> FALSE, before |-> <<>>]

\* PaperTradingSimulator.__init__
IdleSim ==
    /\ sim_balance = starting_balance
    /\ sim_positions = [a \in Assets |-> Zero]
    /\ sim_stats = NoStats
    /\ sim_is_adverse = FALSE
    /\ sim_created = <<>>
    /\ sim_price_history = <<>>
    /\ sim_volume = [recent_volume |-> Zero, volume_window_start |-> 0, trade_count |-> 0]
    /\ sim_op = NoSimOp

IdleComponents ==
    /\ IdleRound
    /\ IdleSim
    /\ IdleFeed
    /\ IdleAsync

----------------------------------------------------------------------------
(* The ledger and the risk gate as a state machine *)

\* The operation label kept in last_op.
Op(name, token_id, side, size, price) ==
    [name |-> name, token_id |-> token_id, side |-> side, size |-> size, price |-> price]

NoResult == <<TRUE, <<"", "">>>>

\* A fill reaches the ledger (bot.py _on_fill, _check_fills): update_position.
ApplyFill(trade) ==
    /\ positions' = update_position(positions, trade)
    /\ buy_cash' = IF trade.side = "BUY"
                   THEN [buy_cash EXCEPT ![trade.token_id] = RAdd(@, RMul(trade.price, trade.size))]
                   ELSE buy_cash
    /\ sell_cash' = IF trade.side = "SELL"
                    THEN [sell_cash EXCEPT ![trade.token_id] = RAdd(@, RMul(trade.price, trade.size))]
                    ELSE sell_cash
    /\ last_mid' = [last_mid EXCEPT ![trade.token_id] = [fresh |-> FALSE, price |-> Zero]]

UpdatePosition ==
    \E a \in Assets, side \in Sides : \E price \in FillPrices(a), size \in FillSizes(a) :
        /\ nfills < MaxFills
        /\ ApplyFill([token_id |-> a, side |-> side, price |-> price, size |-> size])
        /\ nfills' = nfills + 1
        /\ last_op' = Op("update_position", a, side, size, price)
        /\ last_result' = NoResult
        /\ UNCHANGED riskVars
        /\ UNCHANGED outsideLedger

\* A book update reaches the ledger (bot.py _on_orderbook_update,
\* _update_market_data): update_all_unrealized({asset: mid}).
MarkToMid(a, mid) ==
    /\ positions' = update_all_unrealized(positions, [x \in {a} |-> mid])
    /\ last_mid' = [last_mid EXCEPT ![a] = [fresh |-> TRUE, price |-> mid]]

UpdateUnrealized ==
    \E a \in Assets : \E mid \in Mids(a) :
        /\ MarkToMid(a, mid)
        /\ last_op' = Op("update_unrealized", a, "-", Zero, mid)
        /\ last_result' = NoResult
        /\ UNCHANGED <<buy_cash, sell_cash, nfills>>
        /\ UNCHANGED riskVars
        /\ UNCHANGED outsideLedger

\* RiskManager.check_daily_loss as a state change.
DailyLossStep ==
    /\ daily_pnl' = IF today > daily_pnl_reset_time THEN Zero ELSE daily_pnl
    /\ daily_pnl_reset_time' = IF today > daily_pnl_reset_time THEN today ELSE daily_pnl_reset_time
    /\ halted' = halted_after_check_daily_loss(positions, halted)
    /\ halt_reason' = halt_reason_after_check_daily_loss(positions, halt_reason)

CheckDailyLoss ==
    /\ DailyLossStep
    /\ last_op' = Op("check_daily_loss", "-", "-", Zero, Zero)
    /\ last_result' = <<daily_loss_hit(positions), <<"", "">>>>
    /\ UNCHANGED <<ledgerVars, today>>
    /\ UNCHANGED outsideLedger

CheckOrderAllowed ==
    \E a \in Assets, side \in Sides, size \in CheckSizes, price \in CheckPrices :
        /\ last_op' = Op("check_order_allowed", a, side, size, price)
        /\ last_result' = check_order_allowed(positions, halted, halt_reason, a, side, size, price)
        /\ UNCHANGED <<ledgerVars, riskVars>>
        /\ UNCHANGED outsideLedger

\* RiskManager.halt_trading
HaltTrading ==
    \E reason \in HaltReasons :
        /\ halted' = TRUE
        /\ halt_reason' = reason
        /\ last_op' = Op("halt_trading", "-", "-", Zero, Zero)
        /\ last_result' = NoResult
        /\ UNCHANGED <<ledgerVars, daily_pnl, daily_pnl_reset_time, today>>
        /\ UNCHANGED outsideLedger

\* RiskManager.resume_trading
ResumeTrading ==
    /\ halted' = FALSE
    /\ halt_reason' = ""
    /\ last_op' = Op("resume_trading", "-", "-", Zero, Zero)
    /\ last_result' = NoResult
    /\ UNCHANGED <<ledgerVars, daily_pnl, daily_pnl_reset_time, today>>
    /\ UNCHANGED outsideLedger

\* Midnight UTC passes: datetime.utcnow().date() moves on.
DayRollover ==
    /\ today < MaxDays
    /\ today' = today + 1
    /\ last_op' = Op("midnight", "-", "-", Zero, Zero)
    /\ last_result' = NoResult
    /\ UNCHANGED <<ledgerVars, halted, halt_reason, daily_pnl, daily_pnl_reset_time>>
    /\ UNCHANGED outsideLedger

InitLedger ==
    /\ positions = [a \in Assets |-> NewPosition]
    /\ buy_cash = [a \in Assets |-> Zero]
    /\ sell_cash = [a \in Assets |-> Zero]
    /\ last_mid = [a \in Assets |-> [fresh |-> FALSE, price |-> Zero]]
    /\ nfills = 0

InitRisk ==
    /\ halted = FALSE
    /\ halt_reason = ""
    /\ daily_pnl = Zero
    /\ daily_pnl_reset_time = 0
    /\ today = 0

InitOp ==
    /\ last_op = Op("init", "-", "-", Zero, Zero)
    /\ last_result = NoResult

\* Inputs of the quote engine while another part of the bot is under study.
IdleQuoteInputs ==
    /\ orderbook = [bids |-> <<>>, asks |-> <<>>]
    /\ inventory = 0
    /\ hours_to_expiry = NoHours
    /\ volatility_factor = FromInt(1)
    /\ adverse_selection_factor = FromInt(1)

Init ==
    /\ InitLedger
    /\ InitRisk
    /\ InitOp
    /\ IdleQuoteInputs
    /\ IdleQuoteEngine
    /\ InitOM
    /\ IdleLoop
    /\ IdlePaper
    /\ IdleBot
    /\ NoCashout
    /\ IdleComponents

Next ==
    \/ UpdatePosition
    \/ UpdateUnrealized
    \/ CheckDailyLoss
    \/ CheckOrderAllowed
    \/ HaltTrading
    \/ ResumeTrading
    \/ DayRollover

Spec == Init /\ [][Next]_vars

----------------------------------------------------------------------------
(* Properties of the Inventory Ledger and the Risk Gate, checked under Spec *)

\* The trade of an update_position step, read from the label the step leaves.
IsFillStep == last_op'.name = "update_position"
FillAsset == last_op'.token_id

\* C2: a fill that closes part or all of a position books realized P&L on the
\* closed quantity: a SELL against a long adds (price - avg_entry_price) x
\* min(size, quantity), a BUY against a short adds (avg_entry_price - price) x
\* min(size, |quantity|), also when the fill brings the quantity to exactly 0.
C2_ClosingFillBooksRealized ==
    [][IsFillStep =>
        LET p == positions[FillAsset]
            closed == Min(IntOf(last_op'.size), Abs(p.quantity))
        IN  /\ (last_op'.side = "SELL" /\ p.quantity > 0) =>
                positions'[FillAsset].realized_pnl =
                    RAdd(p.realized_pnl,
                         RMul(RSub(last_op'.price, p.avg_entry_price), FromInt(closed)))
            /\ (last_op'.side = "BUY" /\ p.quantity < 0) =>
                positions'[FillAsset].realized_pnl =
                    RAdd(p.realized_pnl,
                         RMul(RSub(p.avg_entry_price, last_op'.price), FromInt(closed)))
    ]_vars

\* C3: once update_unrealized(mid) has run after an asset's fills, its
\* realized + unrealized P&L equals the cash of its SELL fills minus the cash
\* of its BUY fills plus quantity x mid.
C3_PnlIsCashPlusMarkedInventory ==
    \A a \in Assets :
        last_mid[a].fresh =>
            RAdd(positions[a].realized_pnl, positions[a].unrealized_pnl) =
                RAdd(RSub(sell_cash[a], buy_cash[a]),
                     RMul(FromInt(positions[a].quantity), last_mid[a].price))

\* C15: a position with quantity 0 has unrealized_pnl 0, also directly after
\* the fill that flattened it.
C15_FlatPositionHasNoUnrealized ==
    \A a \in Assets : positions[a].quantity = 0 => positions[a].unrealized_pnl = Zero

\* C16: update_position on whole-unit fills is weighted-average cost.  A fill
\* in the position's direction, or from flat, sets avg_entry_price to
\* (|old_qty| x old_avg + size x price) / |new_qty|; an opposite fill smaller
\* than the open quantity leaves avg_entry_price as it was; an opposite fill
\* larger than the open quantity flips the sign of quantity and sets
\* avg_entry_price to the trade price.
C16_WeightedAverageCost ==
    [][IsFillStep =>
        LET p == positions[FillAsset]
            q == positions'[FillAsset]
            size == IntOf(last_op'.size)
            signed == IF last_op'.side = "BUY" THEN size ELSE -size
            same == (last_op'.side = "BUY" /\ p.quantity >= 0)
                        \/ (last_op'.side = "SELL" /\ p.quantity <= 0)
        IN  /\ q.quantity = p.quantity + signed
            /\ same =>
                  q.avg_entry_price =
                      RDiv(RAdd(RMul(FromInt(Abs(p.quantity)), p.avg_entry_price),
                                RMul(last_op'.size, last_op'.price)),
                           FromInt(Abs(q.quantity)))
            /\ (~same /\ size < Abs(p.quantity)) => q.avg_entry_price = p.avg_entry_price
            /\ (~same /\ size > Abs(p.quantity)) =>
                  /\ q.avg_entry_price = last_op'.price
                  /\ (q.quantity > 0) <=> (p.quantity < 0)
    ]_vars

\* C16 witness: BUY 10 @ 0.49 and BUY 20 @ 0.51 have left 30 units at the
\* weighted average 15.10 / 30.
C16_Witness ==
    /\ last_op.name = "update_position"
    /\ positions["A"].quantity = 30
    /\ positions["A"].avg_entry_price = R(151, 300)

\* C5: a halt is sticky.  While halted, every step other than resume_trading
\* leaves the gate halted (also check_daily_loss after the P&L has recovered
\* or the UTC day has rolled over), and check_order_allowed returns
\* (false, "Trading halted: <halt reason>") for every order.
C5_HaltIsSticky ==
    [][/\ (halted /\ last_op'.name # "resume_trading") => halted'
       /\ (halted /\ last_op'.name = "check_order_allowed") =>
              last_result' = <<FALSE, <<"Trading halted", halt_reason>>>>
       /\ halted' =>
              /\ halt_reason' \in HaltReasons \cup {"Daily loss limit hit"}
              /\ \A a \in Assets, side \in Sides, size \in CheckSizes, price \in CheckPrices :
                    check_order_allowed(positions', halted', halt_reason', a, side, size, price)
                        = <<FALSE, <<"Trading halted", halt_reason'>>>>
    ]_vars

\* C5 witness: the gate was halted by the loss limit, the P&L has recovered
\* above the limit, the day has rolled over and check_daily_loss has reset the
\* daily counter, and check_order_allowed still refuses.
C5_Witness ==
    /\ halted
    /\ halt_reason = "Daily loss limit hit"
    /\ ~daily_loss_hit(positions)
    /\ today = 1
    /\ daily_pnl_reset_time = 1
    /\ last_op.name = "check_order_allowed"
    /\ last_result[1] = FALSE

\* The quantity an order would leave, with the size as the claim reads it
\* (exact) and as whole units.
ExactNewQty(ps, op) ==
    IF op.side = "BUY" THEN RAdd(FromInt(ps[op.token_id].quantity), op.size)
                       ELSE RSub(FromInt(ps[op.token_id].quantity), op.size)
WholeNewQty(ps, op) ==
    IF op.side = "BUY" THEN ps[op.token_id].quantity + IntOf(op.size)
                       ELSE ps[op.token_id].quantity - IntOf(op.size)
OverExposure(ps, op) ==
    RLt(max_total_exposure, RAdd(get_gross_exposure(ps), RMul(op.price, op.size)))
OverImbalance(ps, op) ==
    RLt(FromInt(max_inventory_imbalance),
        RAbs(IF op.side = "BUY" THEN RAdd(get_net_exposure(ps), RMul(op.price, op.size))
                                ELSE RSub(get_net_exposure(ps), RMul(op.price, op.size))))

----------------------------------------------------------------------------
(* The quote engine applied to drawn inputs *)

\* The book 0.49 x 200 / 0.51 x 200
ExampleBook ==
    [bids |-> <<Level(R(49, 100), FromInt(200))>>, asks |-> <<Level(R(51, 100), FromInt(200))>>]
\* Order books the engine is given: the tight book of the worked example, a
\* wide one, one near each resolution bound, one whose depth pulls the
\* weighted mid above the best ask, a one-sided one, and ExampleBook.
Books ==
    { ExampleBook,
      [bids |-> <<Level(R(50, 100), FromInt(200))>>, asks |-> <<Level(R(51, 100), FromInt(200))>>],
      [bids |-> <<Level(R(48, 100), FromInt(200))>>, asks |-> <<Level(R(52, 100), FromInt(200))>>],
      [bids |-> <<Level(R(1, 100), FromInt(200))>>, asks |-> <<Level(R(2, 100), FromInt(200))>>],
      [bids |-> <<Level(R(98, 100), FromInt(200))>>, asks |-> <<Level(R(99, 100), FromInt(200))>>],
      [bids |-> <<Level(R(49, 100), FromInt(50))>>,
       asks |-> <<Level(R(51, 100), FromInt(100)), Level(R(61, 100), FromInt(100))>>],
      [bids |-> <<Level(R(50, 100), FromInt(200))>>, asks |-> <<>>] }
\* Inventories: flat, within the skew threshold, beyond it on either side, and
\* a short position of six thresholds.
QEInventories == {-600, -150, 0, max_position_per_market, 120, 150}
HoursToExpiry == {NoHours, R(1, 2), FromInt(24)}
VolatilityFactors == {FromInt(1)}
AdverseSelectionFactors == {FromInt(1), R(3, 2)}
MaxHistory == 2

InitQE ==
    /\ InitLedger
    /\ InitRisk
    /\ InitOp
    /\ orderbook \in Books
    /\ inventory \in QEInventories
    /\ hours_to_expiry \in HoursToExpiry
    /\ volatility_factor \in VolatilityFactors
    /\ adverse_selection_factor \in AdverseSelectionFactors
    /\ IdleQuoteEngine
    /\ InitOM
    /\ IdleLoop
    /\ IdlePaper
    /\ IdleBot
    /\ NoCashout
    /\ IdleComponents

\* QuoteEngine.calculate_quotes
CalculateQuotes ==
    /\ quotes' = calculate_quotes("A", orderbook, inventory, volatility_factor,
                                  hours_to_expiry, adverse_selection_factor)
    /\ qe_op' = "calculate_quotes"
    /\ UNCHANGED <<orderbook, inventory, hours_to_expiry, volatility_factor,
                   adverse_selection_factor, price_history, should_quote_result>>
    /\ UNCHANGED outsideQuoteEngine

\* SmartQuoteEngine.calculate_quotes
SmartCalculateQuotes ==
    /\ Len(price_history) < MaxHistory
    /\ LET history == IF Truthy(mid_price(orderbook))
                      THEN update_price_history(price_history, mid_price(orderbook))
                      ELSE price_history
       IN  /\ price_history' = history
           /\ quotes' = smart_calculate_quotes("A", orderbook, inventory, volatility_factor,
                                               hours_to_expiry, adverse_selection_factor, history)
    /\ qe_op' = "smart_calculate_quotes"
    /\ UNCHANGED <<orderbook, inventory, hours_to_expiry, volatility_factor,
                   adverse_selection_factor, should_quote_result>>
    /\ UNCHANGED outsideQuoteEngine

\* QuoteEngine.should_quote, with max_inventory as the bot passes it
\* (bot.py:400-404)
ShouldQuote ==
    /\ should_quote_result' =
           should_quote(orderbook, inventory, max_position_per_market, hours_to_expiry)
    /\ qe_op' = "should_quote"
    /\ UNCHANGED <<orderbook, inventory, hours_to_expiry, volatility_factor,
                   adverse_selection_factor, price_history, quotes>>
    /\ UNCHANGED outsideQuoteEngine

NextQE ==
    \/ CalculateQuotes
    \/ SmartCalculateQuotes
    \/ ShouldQuote

SpecQE == InitQE /\ [][NextQE]_vars

----------------------------------------------------------------------------
(* Properties of the quote engine, checked under SpecQE *)

AllQuotes == {quotes.bids[i] : i \in 1..Len(quotes.bids)} \cup {quotes.asks[i] : i \in 1..Len(quotes.asks)}

\* C19: every quote calculate_quotes emits, bid or ask, has a price inside
\* [min_price, max_price]; a level outside the range is omitted.
C19_EveryQuoteInsidePriceRange ==
    quotes # NoQuoteSet =>
        \A q \in AllQuotes : RLe(min_price, q.price) /\ RLe(q.price, max_price)

\* calculate_quotes has just run on ExampleBook with nothing else shaping the spread
ExampleCall ==
    /\ qe_op = "calculate_quotes"
    /\ orderbook = ExampleBook
    /\ hours_to_expiry = NoHours
    /\ volatility_factor = FromInt(1)
    /\ adverse_selection_factor = FromInt(1)

\* The shift of both sides for an inventory beyond the threshold
ExpectedSkew == RNeg(RMul(R(inventory, inventory_skew_threshold), R(5, 1000)))

\* C20 (as the code has it): on the book 0.49 x 200 / 0.51 x 200 with
\* base_spread 0.02 the first level is bid 0.49 / ask 0.51 at inventory 0 and
\* bid 0.47 / ask 0.50 at inventory +120: beyond the threshold the fair value
\* drops by inventory x 0.0001 and the spread widens by 1 + |inventory|/400 as
\* well as both sides shifting by -(inventory/threshold) x 0.005. In general,
\* for |inventory| > threshold, the first-level bid is fair_value - spread/2
\* plus that shift, the first-level ask fair_value + spread/2 plus that shift,
\* rounded to the tick, with fair_value and spread the ones the QuoteSet reports.
C20_SkewShiftsBothSides ==
    /\ ExampleCall /\ inventory = 0 =>
          /\ quotes.bids[1].price = R(49, 100)
          /\ quotes.asks[1].price = R(51, 100)
    /\ ExampleCall /\ inventory = 120 =>
          /\ quotes.bids[1].price = R(47, 100)
          /\ quotes.asks[1].price = R(50, 100)
          /\ quotes.fair_value = R(488, 1000)
          /\ quotes.spread = R(26, 1000)
    /\ qe_op = "calculate_quotes" /\ quotes # NoQuoteSet /\ Abs(inventory) > inventory_skew_threshold =>
          LET half_spread == RDiv(quotes.spread, FromInt(2))
              bid == round_price(RAdd(RSub(quotes.fair_value, half_spread), ExpectedSkew))
              ask == round_price(RAdd(RAdd(quotes.fair_value, half_spread), ExpectedSkew))
          IN  /\ RLe(min_price, bid) => quotes.bids # <<>> /\ quotes.bids[1].price = bid
              /\ RLe(ask, max_price) => quotes.asks # <<>> /\ quotes.asks[1].price = ask

C20_Witness ==
    /\ ExampleCall
    /\ inventory = 120
    /\ quotes.bids[1].price = R(47, 100)
    /\ quotes.asks[1].price = R(50, 100)

\* C20 as stated: at inventory +120 the example emits bid 0.48 and ask 0.50,
\* the zero-inventory quotes shifted by -0.006 and rounded.
C20_ExampleEmitsBid48Ask50 ==
    ExampleCall /\ inventory = 120 =>
        /\ quotes.bids[1].price = R(48, 100)
        /\ quotes.asks[1].price = R(50, 100)

\* C7: in every QuoteSet the engines return, every bid is below the fair
\* value and every ask above it, the bids are strictly decreasing and the
\* asks strictly increasing.
C7_QuoteSetOrdered ==
    quotes # NoQuoteSet =>
        /\ \A i \in 1..Len(quotes.bids) : RLt(quotes.bids[i].price, quotes.fair_value)
        /\ \A i \in 1..Len(quotes.asks) : RLt(quotes.fair_value, quotes.asks[i].price)
        /\ \A i \in 1..(Len(quotes.bids) - 1) :
              RLt(quotes.bids[i + 1].price, quotes.bids[i].price)
        /\ \A i \in 1..(Len(quotes.asks) - 1) :
              RLt(quotes.asks[i].price, quotes.asks[i + 1].price)

\* C8: should_quote returns false whenever the mid price is below 0.02 or
\* above 0.98, whatever the inventory.
C8_NoQuotingNearResolution ==
    (/\ qe_op = "should_quote"
     /\ Truthy(mid_price(orderbook))
     /\ \/ RLt(mid_price(orderbook), R(2, 100))
        \/ RLt(R(98, 100), mid_price(orderbook)))
    => should_quote_result[1] = FALSE

----------------------------------------------------------------------------
(* The Order Manager against the simulated venue *)

\* Desired quotes handed to update_quotes: the bid of scenario S5 before and
\* after it moves, and a bid at the best ask of the venue books below.
OMQuoteSets ==
    { [bids |-> <<Quote(R(48, 100), FromInt(20), "BUY")>>,
       asks |-> <<Quote(R(52, 100), FromInt(20), "SELL")>>],
      [bids |-> <<Quote(R(47, 100), FromInt(20), "BUY")>>,
       asks |-> <<Quote(R(52, 100), FromInt(20), "SELL")>>],
      [bids |-> <<Quote(R(51, 100), FromInt(20), "BUY")>>, asks |-> <<>>] }
\* Books the venue sees: the best ask holds half of the crossing bid.
VenueBooks ==
    { [bids |-> <<Level(R(46, 100), FromInt(200))>>,
       asks |-> <<Level(R(51, 100), FromInt(10)), Level(R(61, 100), FromInt(100))>>] }
\* The expected fill of a resting order: at least 1, half a second of volume
RestingFillSizes == {FromInt(10), FromInt(30)}
MaxOrders == 3
MaxTrades == 1
MaxTime == 1
order_timeout == 0

Sim == [orders |-> sim_orders, trades |-> sim_trades]

\* OrderManager.update_quotes(token_id, quote_set); accepts: the venue takes
\* the placements
UpdateQuotes(a, qs, accepts) ==
        /\ LET buy == update_side(om_orders[a]["BUY"], Sim, market_states[a], a, "BUY",
                                  qs.bids, now, accepts)
               sell == update_side(om_orders[a]["SELL"], buy.sim, market_states[a], a, "SELL",
                                   qs.asks, now, accepts)
           IN  /\ Len(sell.sim.orders) <= MaxOrders
               /\ om_orders' = [om_orders EXCEPT ![a] = [BUY |-> buy.keep, SELL |-> sell.keep]]
               /\ sim_orders' = sell.sim.orders
               /\ sim_trades' = sell.sim.trades
               /\ om_rejected' = [BUY |-> buy.rejected, SELL |-> sell.rejected]
               /\ om_op' = [name |-> "update_quotes", token_id |-> a,
                            bids |-> qs.bids, asks |-> qs.asks,
                            requests |-> [BUY |-> buy.requests, SELL |-> sell.requests]]
        /\ om_sync' = NoSync
        /\ UNCHANGED <<market_states, now>>
        /\ UNCHANGED outsideOrderManager

OMUpdateQuotes ==
    \E a \in Tokens, qs \in OMQuoteSets, accepts \in BOOLEAN : UpdateQuotes(a, qs, accepts)

\* OrderManager.cancel_stale_orders
OMCancelStaleOrders ==
    \E a \in Tokens :
        /\ LET buy == cancel_stale_each(om_orders[a]["BUY"], Sim, now, order_timeout)
               sell == cancel_stale_each(om_orders[a]["SELL"], buy.sim, now, order_timeout)
           IN  /\ om_orders' = [om_orders EXCEPT ![a] = [BUY |-> buy.orders, SELL |-> sell.orders]]
               /\ sim_orders' = sell.sim.orders
               /\ sim_trades' = sell.sim.trades
        /\ om_op' = [name |-> "cancel_stale_orders", token_id |-> a, bids |-> <<>>, asks |-> <<>>,
                 requests |-> NoRequests]
        /\ om_rejected' = [s \in Sides |-> {}]
        /\ om_sync' = NoSync
        /\ UNCHANGED <<market_states, now>>
        /\ UNCHANGED outsideOrderManager

\* OrderManager.cancel_all_orders(token_id)
OMCancelAllOrders ==
    \E a \in Tokens :
        /\ LET sim1 == cancel_each(live_orders(om_orders[a]["BUY"]), Sim)
               sim2 == cancel_each(live_orders(om_orders[a]["SELL"]), sim1)
               sim3 == sim_cancel_all_orders(sim2, a)
           IN  /\ sim_orders' = sim3.orders
               /\ sim_trades' = sim3.trades
        /\ om_orders' = [om_orders EXCEPT ![a] = [s \in Sides |-> <<>>]]
        /\ om_op' = [name |-> "cancel_all_orders", token_id |-> a, bids |-> <<>>, asks |-> <<>>,
                 requests |-> NoRequests]
        /\ om_rejected' = [s \in Sides |-> {}]
        /\ om_sync' = NoSync
        /\ UNCHANGED <<market_states, now>>
        /\ UNCHANGED outsideOrderManager

\* PolymarketClient.get_orders(token_id, "LIVE"), as the ids of the orders it
\* returns: the venue's answer, or the empty list when the request raises or
\* the response is not 200.
get_order_ids(orders, token_id, answered) ==
    IF answered THEN sim_get_live_ids(orders, token_id) ELSE {}

\* OrderManager.sync_with_exchange(token_id); answered: the venue answers the
\* query of client.get_orders
SyncWithExchange(a, answered) ==
        LET exchange_ids == get_order_ids(sim_orders, a, answered)
            buy == sync_side(om_orders[a]["BUY"], exchange_ids)
            sell == sync_side(om_orders[a]["SELL"], exchange_ids)
        IN  /\ om_orders' = [om_orders EXCEPT ![a] = [BUY |-> buy.updated, SELL |-> sell.updated]]
            /\ om_sync' = [exchange_ids |-> exchange_ids,
                           dropped |-> [BUY |-> buy.dropped, SELL |-> sell.dropped]]
            /\ om_op' = [name |-> IF answered THEN "sync_with_exchange"
                                  ELSE "sync_with_exchange, query failed",
                         token_id |-> a, bids |-> <<>>, asks |-> <<>>,
                         requests |-> NoRequests]
            /\ om_rejected' = [s \in Sides |-> {}]
            /\ UNCHANGED <<sim_orders, sim_trades, market_states, now>>
            /\ UNCHANGED outsideOrderManager

OMSyncWithExchange == \E a \in Tokens : SyncWithExchange(a, TRUE)

\* sync_with_exchange while the venue's order query fails
OMSyncQueryFails == \E a \in Tokens : SyncWithExchange(a, FALSE)

\* PaperTradingSimulator._check_resting_fill decides to fill a resting order
FillResting(expected_fills, max_trades) ==
    \E id \in 1..Len(sim_orders), wanted \in expected_fills :
        /\ Len(sim_trades) < max_trades
        /\ is_live(sim_orders[id])
        /\ market_states[sim_orders[id].token_id] # NoMarketState
        /\ LET fill_size == resting_fill_size(sim_orders[id], wanted)
               sim1 == execute_fill(Sim, id, sim_orders[id].price, fill_size, TRUE, Zero)
           IN  /\ sim_orders' = sim1.orders
               /\ sim_trades' = sim1.trades
        /\ om_op' = [name |-> "fill", token_id |-> sim_orders[id].token_id, bids |-> <<>>, asks |-> <<>>,
                 requests |-> NoRequests]
        /\ UNCHANGED <<om_orders, market_states, now, om_rejected, om_sync>>
        /\ UNCHANGED outsideOrderManager

SimFillResting == FillResting(RestingFillSizes, MaxTrades)

\* PaperTradingSimulator.update_orderbook
SimUpdateOrderbook ==
    \E a \in Tokens, ob \in VenueBooks :
        /\ market_states' = [market_states EXCEPT ![a] = update_from_orderbook(@, ob)]
        /\ om_op' = [name |-> "venue", token_id |-> "-", bids |-> <<>>, asks |-> <<>>,
                 requests |-> NoRequests]
        /\ UNCHANGED <<om_orders, sim_orders, sim_trades, now, om_rejected, om_sync>>
        /\ UNCHANGED outsideOrderManager

\* Time passes.
Tick ==
    /\ now < MaxTime
    /\ now' = now + 1
    /\ om_op' = [name |-> "tick", token_id |-> "-", bids |-> <<>>, asks |-> <<>>,
             requests |-> NoRequests]
    /\ UNCHANGED <<om_orders, sim_orders, sim_trades, market_states, om_rejected, om_sync>>
    /\ UNCHANGED outsideOrderManager

InitSpecOM ==
    /\ InitLedger
    /\ InitRisk
    /\ InitOp
    /\ IdleQuoteInputs
    /\ IdleQuoteEngine
    /\ InitOM
    /\ IdleLoop
    /\ IdlePaper
    /\ IdleBot
    /\ NoCashout
    /\ IdleComponents

NextOM ==
    \/ OMUpdateQuotes
    \/ OMCancelStaleOrders
    \/ OMCancelAllOrders
    \/ SimFillResting
    \/ SimUpdateOrderbook
    \/ Tick

SpecOM == InitSpecOM /\ [][NextOM]_vars

\* The Order Manager reconciling with the venue, time standing still
NextSync ==
    \/ OMUpdateQuotes
    \/ OMCancelAllOrders
    \/ OMSyncWithExchange
    \/ SimFillResting
    \/ SimUpdateOrderbook

SpecSync == InitSpecOM /\ [][NextSync]_vars

\* The same, the venue's order query failing at times
NextSyncFail ==
    \/ OMUpdateQuotes
    \/ OMCancelAllOrders
    \/ OMSyncWithExchange
    \/ OMSyncQueryFails
    \/ SimUpdateOrderbook

SpecSyncFail == InitSpecOM /\ [][NextSyncFail]_vars

----------------------------------------------------------------------------
(* Properties of the Order Manager, checked under SpecOM *)

\* The (price, size) pairs of the orders the Order Manager tracks as LIVE
TrackedLiveKeys(a, side) ==
    {QuoteKey(om_orders[a][side][i]) :
        i \in {j \in 1..Len(om_orders[a][side]) : om_orders[a][side][j].status = "LIVE"}}

\* The desired quotes of the last update_quotes, per side
DesiredOf(side) == IF side = "BUY" THEN om_op.bids ELSE om_op.asks

\* C1 (amended): when update_quotes(asset, Q) has finished, with no other
\* Order Manager operation interleaved, on each side the (price, size) pairs
\* of the orders the manager tracks as LIVE are the pairs of Q on that side,
\* less the pairs whose new order the venue refused or filled, in part or in
\* whole, as it was placed.
C1_TrackedLiveIsDesiredLessUnplaced ==
    om_op.name = "update_quotes" =>
        \A side \in Sides :
            TrackedLiveKeys(om_op.token_id, side) = QuoteKeys(DesiredOf(side)) \ om_rejected[side]

\* C1 witness: the bid of S5 has moved from (0.48, 20) to (0.47, 20); the old
\* order is cancelled at the venue, the new one is live there, and exactly one
\* bid is tracked.
C1_Witness ==
    /\ om_op.name = "update_quotes"
    /\ QuoteKeys(om_op.bids) = {<<R(47, 100), FromInt(20)>>}
    /\ om_rejected["BUY"] = {}
    /\ Len(om_orders["A"]["BUY"]) = 1
    /\ om_orders["A"]["BUY"][1].status = "LIVE"
    /\ sim_orders[om_orders["A"]["BUY"][1].order_id].status = "LIVE"
    /\ \E i \in 1..Len(sim_orders) :
          /\ sim_orders[i].side = "BUY"
          /\ sim_orders[i].price = R(48, 100)
          /\ sim_orders[i].status = "CANCELLED"

\* C1 as stated: after update_quotes, on each side the pairs of the LIVE
\* orders are exactly the pairs of Q.
C1_TrackedLiveIsDesired ==
    om_op.name = "update_quotes" =>
        \A side \in Sides :
            TrackedLiveKeys(om_op.token_id, side) = QuoteKeys(DesiredOf(side))

\* C10: when cancel_stale_orders has returned, no tracked order older than
\* order_timeout is still LIVE.
C10_NoStaleOrderStaysLive ==
    om_op.name = "cancel_stale_orders" =>
        \A a \in Tokens, side \in Sides :
            \A i \in 1..Len(om_orders[a][side]) :
                now - om_orders[a][side][i].placed_at > order_timeout
                    => om_orders[a][side][i].status # "LIVE"

\* C14: every order of the simulator has 0 <= size_matched <= size and
\* queue_position <= initial_queue_depth, and is MATCHED exactly when
\* size_matched = size.
C14_SimulatorOrderInvariant ==
    \A i \in 1..Len(sim_orders) :
        LET order == sim_orders[i]
        IN  /\ RLe(Zero, order.size_matched)
            /\ RLe(order.size_matched, order.size)
            /\ RLe(order.queue_position, order.initial_queue_depth)
            /\ (order.status = "MATCHED") <=> (order.size_matched = order.size)

\* C14 witness: the simulator holds a MATCHED order, a PARTIAL order filled as
\* it crossed the book, and an order that rests behind a queue.
C14_Witness ==
    /\ \E i \in 1..Len(sim_orders) : sim_orders[i].status = "MATCHED"
    /\ \E i \in 1..Len(sim_orders) :
          /\ sim_orders[i].status \in {"PARTIAL", "CANCELLED"}
          /\ RLt(Zero, sim_orders[i].size_matched)
    /\ \E i \in 1..Len(sim_orders) : RLt(Zero, sim_orders[i].initial_queue_depth)

\* C11: when the venue fills an order the Order Manager tracks, the tracked
\* status becomes PARTIAL or MATCHED as the fill is partial or full; so every
\* tracked order the venue holds as PARTIAL or MATCHED has that status in the
\* Order Manager too.
C11_TrackedStatusFollowsFills ==
    \A a \in Tokens, side \in Sides :
        \A i \in 1..Len(om_orders[a][side]) :
            LET managed == om_orders[a][side][i]
            IN  sim_orders[managed.order_id].status \in {"PARTIAL", "MATCHED"}
                    => managed.status = sim_orders[managed.order_id].status

\* C12: after sync_with_exchange(asset) with the venue's LIVE set V, every
\* record of the asset that was LIVE with its id outside V is UNKNOWN, and
\* every record with its id in V is still tracked with its status unchanged.
C12_SyncMarksAbsentKeepsPresent ==
    [][om_op'.name = "sync_with_exchange" =>
          \A side \in Sides :
              LET before == om_orders[om_op'.token_id][side]
                  after == om_orders'[om_op'.token_id][side]
                  dropped == om_sync'.dropped[side]
              IN  \A i \in 1..Len(before) :
                      /\ (before[i].status = "LIVE" /\ before[i].order_id \notin om_sync'.exchange_ids)
                            => \E j \in 1..Len(dropped) :
                                   /\ dropped[j].order_id = before[i].order_id
                                   /\ dropped[j].status = "UNKNOWN"
                      /\ before[i].order_id \in om_sync'.exchange_ids
                            => \E j \in 1..Len(after) : after[j] = before[i]
    ]_vars

\* C12 witness: a sync has marked a LIVE record the venue had filled UNKNOWN
\* and has kept another the venue still lists.
C12_Witness ==
    /\ om_op.name = "sync_with_exchange"
    /\ \E side \in Sides : \E j \in 1..Len(om_sync.dropped[side]) :
           om_sync.dropped[side][j].status = "UNKNOWN"
    /\ \E side \in Sides : \E j \in 1..Len(om_orders[om_op.token_id][side]) :
           om_orders[om_op.token_id][side][j].order_id \in om_sync.exchange_ids

\* C22: within one reconciliation of one asset and side, every cancel request
\* is sent before the first place request.
C22_CancelsBeforePlacements ==
    om_op.name = "update_quotes" =>
        \A side \in Sides :
            LET requests == om_op.requests[side]
            IN  \A i \in 1..Len(requests), j \in 1..Len(requests) :
                    requests[i].kind = "place" /\ requests[j].kind = "cancel" => j < i

\* C22 witness: a reconciliation of the bids that cancelled one order and
\* placed another.
C22_Witness ==
    /\ om_op.name = "update_quotes"
    /\ Len(om_op.requests["BUY"]) = 2
    /\ om_op.requests["BUY"][1].kind = "cancel"
    /\ om_op.requests["BUY"][2].kind = "place"
    /\ sim_orders[om_op.requests["BUY"][1].order_id].status = "CANCELLED"

----------------------------------------------------------------------------
(* Stopping the bot: bot.py, stop and _cleanup *)

\* MarketMakingBot.stop
StopSignal ==
    /\ running
    /\ lifecycle # "stopped"
    /\ running' = FALSE
    /\ UNCHANGED <<lifecycle, omVars>>
    /\ UNCHANGED outsideStop

\* The test of `while self._running` passes: a tick begins.
BeginTick ==
    /\ running
    /\ lifecycle = "idle"
    /\ lifecycle' = "tick"
    /\ UNCHANGED <<running, omVars>>
    /\ UNCHANGED outsideStop

\* update_quotes within the tick
TickUpdateQuotes ==
    /\ lifecycle = "tick"
    /\ OMUpdateQuotes

\* cancel_stale_orders within the tick
TickCancelStaleOrders ==
    /\ lifecycle = "tick"
    /\ OMCancelStaleOrders

\* The tick ends; the loop sleeps until the next one.
EndTick ==
    /\ lifecycle = "tick"
    /\ lifecycle' = "idle"
    /\ UNCHANGED <<running, omVars>>
    /\ UNCHANGED outsideStop

\* The loop has seen _running false and left; _cleanup runs
\* order_manager.cancel_all_orders().
Cleanup ==
    /\ ~running
    /\ lifecycle = "idle"
    /\ lifecycle' = "stopped"
    /\ LET res == om_cancel_all_orders(om_orders, Sim)
       IN  /\ om_orders' = res.orders
           /\ sim_orders' = res.sim.orders
           /\ sim_trades' = res.sim.trades
    /\ om_op' = [name |-> "cleanup", token_id |-> NoToken, bids |-> <<>>, asks |-> <<>>,
             requests |-> NoRequests]
    /\ om_rejected' = [s \in Sides |-> {}]
    /\ om_sync' = NoSync
    /\ UNCHANGED <<running, market_states, now>>
    /\ UNCHANGED outsideStop

NextStop ==
    \/ StopSignal
    \/ BeginTick
    \/ TickUpdateQuotes
    \/ TickCancelStaleOrders
    \/ EndTick
    \/ Cleanup
    \/ SimFillResting
    \/ SimUpdateOrderbook

\* Every tick ends, its calls to the venue returning, and the task that has
\* left the loop runs _cleanup.
SpecStop ==
    /\ InitSpecOM
    /\ [][NextStop]_vars
    /\ WF_vars(EndTick)
    /\ WF_vars(Cleanup)

\* C17: once the stop signal has set _running false the loop leaves after its
\* current tick and _cleanup runs; when it has finished no order is LIVE or
\* PARTIAL in the simulator and the Order Manager tracks no LIVE order.
C17_StopCancelsEveryRestingOrder ==
    /\ [](lifecycle = "stopped" =>
            /\ \A i \in 1..Len(sim_orders) : ~is_live(sim_orders[i])
            /\ \A a \in Tokens, side \in Sides :
                  \A i \in 1..Len(om_orders[a][side]) : om_orders[a][side][i].status # "LIVE")
    /\ (~running ~> lifecycle = "stopped")

\* C17 witness: cleanup has finished after orders were placed, one of them
\* filled in part as it was placed and cancelled by the shutdown.
C17_Witness ==
    /\ lifecycle = "stopped"
    /\ \E i \in 1..Len(sim_orders) :
          /\ sim_orders[i].status = "CANCELLED"
          /\ RLt(Zero, sim_orders[i].size_matched)
    /\ \E i \in 1..Len(sim_orders) :
          /\ sim_orders[i].status = "CANCELLED"
          /\ sim_orders[i].size_matched = Zero


\* The quotes a tick wants for a token, before the risk filter
LoopQuotes ==
    <<Quote(R(49, 100), FromInt(10), "BUY"), Quote(R(51, 100), FromInt(10), "SELL")>>
MaxPolls == 2

\* Where the loop is once a step has left these tokens and placements to do
PcAfter(markets, queue) == IF markets = <<>> /\ queue = <<>> THEN "idle" ELSE "quoting"

\* The venue fills an order of the bot.  In push mode the fill callback
\* _on_fill runs at once; in polling mode the trade waits for _check_fills.
LoopVenueFill ==
    \E a \in Assets, side \in Sides : \E price \in FillPrices(a), size \in FillSizes(a) :
        LET trade == [trade_id |-> Len(sim_trades), token_id |-> a, side |-> side,
                      price |-> price, size |-> size, order_id |-> 0]
        IN  /\ nfills < MaxFills
            /\ nfills' = nfills + 1
            /\ sim_trades' = Append(sim_trades, trade)
            /\ IF mode = "push"
               THEN /\ ApplyFill(trade)
                    /\ applied' = Append(applied, 1)
                    /\ pending_quote_updates' = [pending_quote_updates EXCEPT ![a] = TRUE]
               ELSE /\ applied' = Append(applied, 0)
                    /\ UNCHANGED <<positions, buy_cash, sell_cash, last_mid, pending_quote_updates>>
            /\ last_op' = Op("venue_fill", a, side, size, price)
            /\ last_result' = NoResult
            /\ UNCHANGED <<halted, halt_reason, mode, pc, markets_to_update, place_queue, polls>>
            /\ UNCHANGED outsideLoop

\* _on_orderbook_update: a book update arrives in push mode.
LoopOrderbookUpdate ==
    \E a \in Assets : \E mid \in Mids(a) :
        /\ mode = "push"
        /\ MarkToMid(a, mid)
        /\ pending_quote_updates' = [pending_quote_updates EXCEPT ![a] = TRUE]
        /\ last_op' = Op("on_orderbook_update", a, "-", Zero, mid)
        /\ last_result' = NoResult
        /\ UNCHANGED <<buy_cash, sell_cash, nfills, sim_trades, applied, halted, halt_reason,
                       mode, pc, markets_to_update, place_queue, polls>>
        /\ UNCHANGED outsideLoop

\* _run_polling_loop, steps 1 to 3 of a tick: _update_market_data,
\* _check_fills, check_daily_loss.
LoopPollTick ==
    \E mid \in Mids("A") :
        LET marked == update_all_unrealized(positions, [x \in {"A"} |-> mid])
            trades == LastTrades(sim_trades, TradesLimit)
            filled == apply_trades(marked, trades)
            hit == daily_loss_hit(filled)
        IN  /\ mode = "polling"
            /\ pc = "idle"
            /\ polls < MaxPolls
            /\ polls' = polls + 1
            /\ positions' = filled
            /\ buy_cash' = [a \in Assets |-> RAdd(buy_cash[a], cash_of(trades, a, "BUY"))]
            /\ sell_cash' = [a \in Assets |-> RAdd(sell_cash[a], cash_of(trades, a, "SELL"))]
            /\ last_mid' = [a \in Assets |->
                              IF \E i \in 1..Len(trades) : trades[i].token_id = a
                              THEN [fresh |-> FALSE, price |-> Zero]
                              ELSE IF a = "A" THEN [fresh |-> TRUE, price |-> mid]
                              ELSE last_mid[a]]
            /\ applied' = [i \in 1..Len(applied) |->
                              IF i > Len(sim_trades) - Len(trades) THEN applied[i] + 1
                              ELSE applied[i]]
            /\ halted' = halted_after_check_daily_loss(filled, halted)
            /\ halt_reason' = halt_reason_after_check_daily_loss(filled, halt_reason)
            /\ markets_to_update' = IF hit THEN <<>> ELSE target_markets
            /\ pc' = IF hit THEN "idle" ELSE "quoting"
            /\ last_op' = Op("poll_tick", "-", "-", Zero, mid)
            /\ last_result' = <<hit, <<"", "">>>>
            /\ UNCHANGED <<nfills, sim_trades, mode, place_queue, pending_quote_updates>>
            /\ UNCHANGED outsideLoop

\* A wake-up that takes every target market, flagged or not.
every_market(pending) == target_markets

\* The list of _process_pending_quote_updates: the tokens whose flag is set,
\* read under _quote_update_lock
flagged_markets(pending) == SelectSeq(target_markets, LAMBDA a : pending[a])

\* _process_pending_quote_updates up to its loop over the flagged tokens
LoopProcessPending ==
    LET flagged == flagged_markets(pending_quote_updates)
        hit == daily_loss_hit(positions)
    IN  /\ mode = "push"
        /\ pc = "idle"
        /\ pending_quote_updates' = [a \in Assets |-> FALSE]
        /\ halted' = halted_after_check_daily_loss(positions, halted)
        /\ halt_reason' = halt_reason_after_check_daily_loss(positions, halt_reason)
        /\ markets_to_update' = IF hit THEN <<>> ELSE flagged
        /\ pc' = IF hit THEN "idle" ELSE PcAfter(flagged, <<>>)
        /\ last_op' = Op("process_pending", "-", "-", Zero, Zero)
        /\ last_result' = <<hit, <<"", "">>>>
        /\ UNCHANGED <<ledgerVars, sim_trades, applied, mode, place_queue, polls>>
        /\ UNCHANGED outsideLoop

\* _update_quotes_for_market up to the call of update_quotes: the quotes of
\* the next token pass the risk filter.
LoopBeginMarket ==
    /\ pc = "quoting"
    /\ place_queue = <<>>
    /\ markets_to_update # <<>>
    /\ LET queue == filter_quotes(positions, halted, halt_reason, Head(markets_to_update), LoopQuotes)
       IN  /\ place_queue' = queue
           /\ pc' = PcAfter(Tail(markets_to_update), queue)
    /\ markets_to_update' = Tail(markets_to_update)
    /\ last_op' = Op("update_quotes_for_market", Head(markets_to_update), "-", Zero, Zero)
    /\ last_result' = NoResult
    /\ UNCHANGED <<ledgerVars, sim_trades, applied, halted, halt_reason, mode,
                   pending_quote_updates, polls>>
    /\ UNCHANGED outsideLoop

\* update_quotes issues its next client.place_order.
LoopPlaceOrder ==
    /\ pc = "quoting"
    /\ place_queue # <<>>
    /\ LET q == Head(place_queue)
       IN  last_op' = Op("place_order", q.token_id, q.side, q.size, q.price)
    /\ last_result' = NoResult
    /\ place_queue' = Tail(place_queue)
    /\ pc' = PcAfter(markets_to_update, Tail(place_queue))
    /\ UNCHANGED <<ledgerVars, sim_trades, applied, halted, halt_reason, mode,
                   markets_to_update, pending_quote_updates, polls>>
    /\ UNCHANGED outsideLoop

InitLoop ==
    /\ InitLedger
    /\ InitRisk
    /\ InitOp
    /\ IdleQuoteInputs
    /\ IdleQuoteEngine
    /\ InitOM
    /\ IdlePaper
    /\ IdleBot
    /\ NoCashout
    /\ IdleComponents
    /\ mode \in {"polling", "push"}
    /\ pc = "idle"
    /\ markets_to_update = <<>>
    /\ place_queue = <<>>
    /\ pending_quote_updates = [a \in Assets |-> FALSE]
    /\ applied = <<>>
    /\ polls = 0

NextLoop ==
    \/ LoopVenueFill
    \/ LoopOrderbookUpdate
    \/ LoopPollTick
    \/ LoopProcessPending
    \/ LoopBeginMarket
    \/ LoopPlaceOrder

SpecLoop == InitLoop /\ [][NextLoop]_vars

----------------------------------------------------------------------------
(* Properties of the control loop, checked under SpecLoop *)

\* C4: the loop issues no place_order while the total P&L is below
\* -daily_loss_limit and the Risk Gate is not halted, in polling and in push
\* mode, for every token of a tick.
C4_NoPlacementBelowLossLimit ==
    [][last_op'.name = "place_order" =>
          (halted \/ ~RLt(total_pnl(positions), RNeg(daily_loss_limit)))
    ]_vars

\* C9: no trade_id is applied to the Inventory Ledger more than once.
C9_TradeAppliedAtMostOnce ==
    \A i \in 1..Len(applied) : applied[i] <= 1

----------------------------------------------------------------------------
(* The fallback paper store under place, cancel and user-order updates *)

PaperSizes == {FromInt(10)}
PaperPrices == {R(49, 100), R(51, 100)}
PaperBooks == { [bids |-> <<Level(R(49, 100), FromInt(100))>>,
                 asks |-> <<Level(R(51, 100), FromInt(100))>>] }
UserOrderEvents == {"PLACEMENT", "UPDATE", "CANCELLATION"}
MaxPaperOrders == 2

\* client.place_order in paper mode without the simulator
PaperPlaceOrder ==
    \E a \in Tokens, side \in Sides, price \in PaperPrices, size \in PaperSizes,
       have_book \in BOOLEAN, ob \in PaperBooks, lucky \in BOOLEAN :
        /\ Len(paper_orders) < MaxPaperOrders
        /\ LET res == paper_place_order(paper_orders, paper_trades, a, side, price, size,
                                        have_book, ob, lucky)
           IN  /\ paper_orders' = res.orders
               /\ paper_trades' = res.trades
        /\ paper_op' = "place_order"
        /\ UNCHANGED outsidePaper

\* client.cancel_order(order_id) in paper mode without the simulator
PaperCancelOrder ==
    \E id \in 1..Len(paper_orders) :
        /\ paper_orders' = paper_cancel_order(paper_orders, id)
        /\ paper_op' = "cancel_order"
        /\ UNCHANGED paper_trades
        /\ UNCHANGED outsidePaper

\* client.cancel_all_orders(token_id) in paper mode without the simulator
PaperCancelAllOrders ==
    \E a \in Tokens :
        /\ paper_orders' = paper_cancel_all_orders(paper_orders, a)
        /\ paper_op' = "cancel_all_orders"
        /\ UNCHANGED paper_trades
        /\ UNCHANGED outsidePaper

\* A user-order message of the feed names an order of the store.
PaperUserOrder ==
    \E id \in 1..Len(paper_orders), size_matched \in {Zero} \cup PaperSizes,
       event_type \in UserOrderEvents :
        /\ paper_orders' = handle_ws_user_order(paper_orders, id, size_matched,
                                                paper_orders[id].size, event_type)
        /\ paper_op' = "user_order"
        /\ UNCHANGED paper_trades
        /\ UNCHANGED outsidePaper

InitPaper ==
    /\ InitLedger
    /\ InitRisk
    /\ InitOp
    /\ IdleQuoteInputs
    /\ IdleQuoteEngine
    /\ InitOM
    /\ IdleLoop
    /\ IdlePaper
    /\ IdleBot
    /\ NoCashout
    /\ IdleComponents

NextPaper ==
    \/ PaperPlaceOrder
    \/ PaperCancelOrder
    \/ PaperCancelAllOrders
    \/ PaperUserOrder

SpecPaper == InitPaper /\ [][NextPaper]_vars

\* C13: in the fallback paper store an order that is MATCHED or CANCELLED
\* never changes status again.
C13_TerminalStatusIsFinal ==
    [][\A i \in 1..Len(paper_orders) :
          paper_orders[i].status \in {"MATCHED", "CANCELLED"}
              => paper_orders'[i].status = paper_orders[i].status
    ]_vars

----------------------------------------------------------------------------
(* Cashout of a bot that holds positions and resting orders *)

CloseOutcomes == {"order", "none", "raises"}

\* POST /api/bot/cashout
Cashout ==
    \E outcome \in [Assets -> CloseOutcomes] :
        \E res \in {cashout(positions, om_orders, Sim, market_states, outcome, mode = "push")} :
            /\ cashout_reply = NoReply
            /\ positions' = res.positions
            /\ buy_cash' = [a \in Assets |-> RAdd(buy_cash[a],
                                IF mode = "push" THEN cash_of(res.fills, a, "BUY") ELSE Zero)]
            /\ sell_cash' = [a \in Assets |-> RAdd(sell_cash[a],
                                IF mode = "push" THEN cash_of(res.fills, a, "SELL") ELSE Zero)]
            /\ last_mid' = [a \in Assets |->
                              IF mode = "push" /\ \E k \in 1..Len(res.fills) : res.fills[k].token_id = a
                              THEN [fresh |-> FALSE, price |-> Zero]
                              ELSE last_mid[a]]
            /\ om_orders' = res.orders
            /\ sim_orders' = res.sim.orders
            /\ sim_trades' = res.sim.trades
            /\ om_op' = [name |-> "cashout", token_id |-> NoToken, bids |-> <<>>, asks |-> <<>>,
                     requests |-> NoRequests]
            /\ om_rejected' = [s \in Sides |-> {}]
            /\ om_sync' = NoSync
            /\ cashout_legs' = res.legs
            /\ cashout_reply' = res.reply
            /\ running' = (running /\ ~res.stopped)
            /\ lifecycle' = IF res.stopped THEN "stopped" ELSE lifecycle
            /\ last_op' = Op("cashout", NoToken, "-", Zero, Zero)
            /\ last_result' = NoResult
            /\ UNCHANGED <<nfills, riskVars, market_states, now, qeVars, loopVars, paperVars,
                           componentVars>>

\* The bot trades until the cashout is asked for. Fills and quoting touch
\* disjoint state, so the fills are taken first.
CashoutFill ==
    /\ cashout_reply = NoReply
    /\ om_op.name = "init"
    /\ UpdatePosition

\* One round of quotes rests at the venue when the cashout is asked for.
CashoutUpdateQuotes ==
    /\ cashout_reply = NoReply
    /\ sim_orders = <<>>
    /\ OMUpdateQuotes

CashoutUpdateOrderbook ==
    /\ cashout_reply = NoReply
    /\ SimUpdateOrderbook

InitCashout ==
    /\ InitLedger
    /\ InitRisk
    /\ InitOp
    /\ IdleQuoteInputs
    /\ IdleQuoteEngine
    /\ InitOM
    /\ IdlePaper
    /\ IdleBot
    /\ NoCashout
    /\ IdleComponents
    /\ mode \in {"polling", "push"}
    /\ pc = "idle"
    /\ markets_to_update = <<>>
    /\ place_queue = <<>>
    /\ pending_quote_updates = [a \in Assets |-> FALSE]
    /\ applied = <<>>
    /\ polls = 0

NextCashout ==
    \/ CashoutFill
    \/ CashoutUpdateQuotes
    \/ CashoutUpdateOrderbook
    \/ Cashout

SpecCashout == InitCashout /\ [][NextCashout]_vars

\* C18: a cashout attempts its three legs in order - cancel all orders, a
\* closing order for every non-zero position, stop the bot - and reports the
\* outcome of each leg, whatever fails or raises: the reply is the report,
\* and its count of cancelled orders is the number of orders the first leg
\* cancelled.
C18_CashoutAttemptsAndReportsEveryLeg ==
    [][om_op'.name = "cashout" =>
          /\ cashout_legs'[1].leg = "cancel_all_orders"
          /\ cashout_legs'[Len(cashout_legs')].leg = "stop_bot"
          /\ \A a \in Assets :
                positions[a].quantity # 0 =>
                    \E k \in 1..Len(cashout_legs') :
                        /\ cashout_legs'[k].leg = "close"
                        /\ cashout_legs'[k].token_id = a
                        /\ cashout_legs'[k].size = FromInt(Abs(positions[a].quantity))
                        /\ cashout_legs'[k].side = IF positions[a].quantity > 0 THEN "SELL" ELSE "BUY"
          /\ cashout_reply'.status = 200
          /\ cashout_reply'.orders_cancelled = count_live_orders(om_orders)
    ]_vars

----------------------------------------------------------------------------
(* The rest of the program at rest, for the components exercised on their own *)

IdleProgram ==
    /\ InitLedger
    /\ InitRisk
    /\ InitOp
    /\ IdleQuoteInputs
    /\ IdleQuoteEngine
    /\ InitOM
    /\ IdleLoop
    /\ IdlePaper
    /\ IdleBot
    /\ NoCashout

programVars == <<ledgerVars, riskVars, opVars, qeVars, omVars, loopVars, paperVars, stopVars,
                 cashoutVars>>

----------------------------------------------------------------------------
(* Price rounding: QuoteEngine._round_price on prices in thousandths *)

\* Prices from -0.050 to 1.000 in steps of 0.001: every x.xx5 among them
RoundInputs == {R(n, 1000) : n \in -50..1000}

RoundPrice ==
    /\ rounded_price = None
    /\ rounded_price' = round_price(unrounded_price)
    /\ UNCHANGED unrounded_price
    /\ UNCHANGED <<programVars, simVars, feedVars, asyncVars>>

InitRound ==
    /\ IdleProgram
    /\ IdleSim
    /\ IdleFeed
    /\ IdleAsync
    /\ unrounded_price \in RoundInputs
    /\ rounded_price = None

NextRound == RoundPrice

SpecRound == InitRound /\ [][NextRound]_vars

\* The tick nearest to a price, a tie going to the tick farther from zero
round_half_away_from_zero(price) ==
    LET hundredths == RMul(RAbs(price), FromInt(100))
        magnitude == (2 * hundredths[1] + hundredths[2]) \div (2 * hundredths[2])
    IN  R(IF price[1] < 0 THEN -magnitude ELSE magnitude, 100)

\* C21: _round_price returns the nearest 0.01 tick, and for a price exactly
\* halfway between two ticks the tick farther from zero (0.485 -> 0.49,
\* 0.495 -> 0.50).
C21_RoundHalfAwayFromZero ==
    rounded_price # None => rounded_price = round_half_away_from_zero(unrounded_price)

----------------------------------------------------------------------------
(* The simulated venue in full, on token A, with the bot's fill callback    *)
(* wired (push mode): orders placed and cancelled, books and market trades  *)
(* arriving, the fill check running, time passing                           *)

SimToken == "A"
\* Books: mid 0.50 with two ask levels, and mid 0.46
SimBooks ==
    { [bids |-> <<Level(R(48, 100), FromInt(100))>>,
       asks |-> <<Level(R(52, 100), FromInt(10)), Level(R(53, 100), FromInt(20))>>],
      [bids |-> <<Level(R(44, 100), FromInt(100))>>, asks |-> <<Level(R(48, 100), FromInt(10))>>] }
\* Orders: a bid and an ask that rest behind the book of mid 0.50, a bid that
\* takes both its ask levels and rests with a remainder, one whose limit lies
\* between them, and an ask that crosses its bid
SimOrders ==
    { Quote(R(46, 100), FromInt(25), "BUY"), Quote(R(53, 100), FromInt(40), "BUY"),
      Quote(R(52, 100), FromInt(25), "BUY"), Quote(R(46, 100), FromInt(25), "SELL"),
      Quote(R(53, 100), FromInt(25), "SELL") }
MarketTradeSizes == {FromInt(90)}
MaxSimOrders == 2
\* The fill check fills an order only while the simulator holds fewer trades
MaxSimTrades == 2
\* Placements and book updates take a second each; at most this many of them
MaxSimTime == 4

\* The simulator as one record
Simulator ==
    [orders |-> sim_orders, trades |-> sim_trades, positions |-> sim_positions,
     balance |-> sim_balance, stats |-> sim_stats, is_adverse |-> sim_is_adverse]

\* The simulator after an operation, its fills handed to the bot's _on_fill,
\* which applies each to the ledger and flags the asset for requoting
SimulatorBecomes(S) ==
    LET fills == SubSeq(S.trades, Len(sim_trades) + 1, Len(S.trades))
    IN  /\ sim_orders' = S.orders
        /\ sim_trades' = S.trades
        /\ sim_positions' = S.positions
        /\ sim_balance' = S.balance
        /\ sim_stats' = S.stats
        /\ sim_is_adverse' = S.is_adverse
        /\ positions' = apply_trades(positions, fills)
        /\ buy_cash' = [a \in Assets |-> RAdd(buy_cash[a], cash_of(fills, a, "BUY"))]
        /\ sell_cash' = [a \in Assets |-> RAdd(sell_cash[a], cash_of(fills, a, "SELL"))]
        /\ last_mid' = [a \in Assets |->
                          IF \E k \in 1..Len(fills) : fills[k].token_id = a
                          THEN [fresh |-> FALSE, price |-> Zero]
                          ELSE last_mid[a]]
        /\ pending_quote_updates' = [a \in Assets |->
                          pending_quote_updates[a] \/ \E k \in 1..Len(fills) : fills[k].token_id = a]

\* What no operation of the simulator touches
outsideSim ==
    <<nfills, riskVars, opVars, qeVars, om_orders, om_op, om_rejected, om_sync,
      mode, pc, markets_to_update, place_queue, applied, polls,
      paperVars, stopVars, cashoutVars, roundVars, feedVars, asyncVars>>

\* The mid the market showed last, or None
CurrentMid ==
    IF sim_price_history = <<>> THEN None ELSE sim_price_history[Len(sim_price_history)].mid

\* PaperTradingSimulator.place_order
FullPlaceOrder ==
    \E q \in SimOrders :
        /\ Len(sim_orders) < MaxSimOrders
        /\ now % price_history_window < MaxSimTime
        /\ SimulatorBecomes(simulator_place_order(Simulator, market_states[SimToken], SimToken,
                                                  q.side, q.price, q.size))
        /\ sim_created' = Append(sim_created, [created_at |-> now, mid |-> CurrentMid])
        /\ sim_op' = [NoSimOp EXCEPT !.name = "place_order", !.order_id = Len(sim_orders) + 1,
                                     !.before = <<sim_balance, sim_positions, positions>>]
        /\ now' = now + 1
        /\ UNCHANGED <<market_states, sim_price_history, sim_volume>>
        /\ UNCHANGED outsideSim

\* PaperTradingSimulator.cancel_order
FullCancelOrder ==
    \E id \in 1..Len(sim_orders) :
        /\ SimulatorBecomes(simulator_cancel_order(Simulator, id))
        /\ sim_op' = [NoSimOp EXCEPT !.name = "cancel_order", !.order_id = id,
                                     !.before = IF sim_op.name = "place_order" /\ sim_op.order_id = id
                                                THEN sim_op.before ELSE <<>>]
        /\ UNCHANGED <<now, market_states, sim_created, sim_price_history, sim_volume>>
        /\ UNCHANGED outsideSim

\* One pass of _check_all_fills over one live order: _check_resting_fill
FullCheckRestingFill ==
    \E id \in 1..Len(sim_orders), lucky \in BOOLEAN :
        /\ is_live(sim_orders[id])
        /\ market_states[SimToken] # NoMarketState
        /\ lucky => Len(sim_trades) < MaxSimTrades
        /\ LET p == calculate_fill_probability(sim_orders[id], sim_created[id].created_at,
                                               sim_price_history, sim_volume, now)
           IN  sim_op' = [name |-> "check_resting_fill", order_id |-> id, prob |-> p.prob,
                          price_move |-> p.price_move, adverse |-> p.adverse, filled |-> lucky,
                          before |-> <<>>]
        /\ SimulatorBecomes(check_resting_fill(Simulator, id, sim_created[id].created_at,
                                               sim_price_history, sim_volume, now, lucky))
        /\ UNCHANGED <<now, market_states, sim_created, sim_price_history, sim_volume>>
        /\ UNCHANGED outsideSim

\* PaperTradingSimulator.update_orderbook: the first book creates the market
FullUpdateOrderbook ==
    \E ob \in SimBooks :
        LET ms == update_from_orderbook(market_states[SimToken], ob)
        IN  /\ now % price_history_window < MaxSimTime
            /\ ms # market_states[SimToken]
            /\ market_states' = [market_states EXCEPT ![SimToken] = ms]
            /\ sim_price_history' = update_price_history_from_orderbook(sim_price_history, ms, now)
            /\ sim_volume' = IF market_states[SimToken] = NoMarketState
                             THEN [sim_volume EXCEPT !.volume_window_start = now]
                             ELSE sim_volume
            /\ sim_op' = NoSimOp
            /\ now' = now + 1
            /\ SimulatorBecomes(Simulator)
            /\ UNCHANGED sim_created
            /\ UNCHANGED outsideSim

\* PaperTradingSimulator.record_market_trade on a market that has a book
FullRecordMarketTrade ==
    \E size \in MarketTradeSizes :
        /\ market_states[SimToken] # NoMarketState
        /\ sim_volume.trade_count = 0
        /\ sim_volume' = record_market_trade(sim_volume, size, now)
        /\ sim_op' = NoSimOp
        /\ SimulatorBecomes(Simulator)
        /\ UNCHANGED <<now, market_states, sim_created, sim_price_history>>
        /\ UNCHANGED outsideSim

\* Five minutes pass, once
FullWait ==
    /\ now < price_history_window
    /\ now' = now + price_history_window
    /\ sim_op' = NoSimOp
    /\ SimulatorBecomes(Simulator)
    /\ UNCHANGED <<market_states, sim_created, sim_price_history, sim_volume>>
    /\ UNCHANGED outsideSim

InitSim ==
    /\ InitLedger
    /\ InitRisk
    /\ InitOp
    /\ IdleQuoteInputs
    /\ IdleQuoteEngine
    /\ InitOM
    /\ IdlePaper
    /\ IdleBot
    /\ NoCashout
    /\ IdleRound
    /\ IdleSim
    /\ IdleFeed
    /\ IdleAsync
    /\ mode = "push"
    /\ pc = "idle"
    /\ markets_to_update = <<>>
    /\ place_queue = <<>>
    /\ pending_quote_updates = [a \in Assets |-> FALSE]
    /\ applied = <<>>
    /\ polls = 0

\* Orders, books and fills
NextSim ==
    \/ FullPlaceOrder
    \/ FullCancelOrder
    \/ FullCheckRestingFill
    \/ FullUpdateOrderbook

SpecSim == InitSim /\ [][NextSim]_vars

\* One resting order under the fill check while books and market trades arrive
\* and time passes
QueuePlaceOrder ==
    /\ sim_orders = <<>>
    /\ FullPlaceOrder

QueueCheckRestingFill ==
    /\ FullCheckRestingFill
    /\ ~sim_op'.filled

NextQueue ==
    \/ QueuePlaceOrder
    \/ QueueCheckRestingFill
    \/ FullUpdateOrderbook
    \/ FullRecordMarketTrade
    \/ FullWait

SpecQueue == InitSim /\ [][NextQueue]_vars

----------------------------------------------------------------------------
(* Properties of the simulated venue, checked under SpecSim and SpecQueue *)

\* A step that places an order, the order as the step leaves it, and the
\* trades the step adds
PlacesOrder == Len(sim_orders') = Len(sim_orders) + 1
PlacedOrder == sim_orders'[Len(sim_orders')]
NewTrades == SubSeq(sim_trades', Len(sim_trades) + 1, Len(sim_trades'))
\* The side of the book an order of this side trades against
OppositeDepth(side) ==
    IF side = "BUY" THEN market_states[SimToken].ask_depth
    ELSE market_states[SimToken].bid_depth
\* a is a better price than b for a taker of this side
BetterFor(side, a, b) == IF side = "BUY" THEN RLt(a, b) ELSE RLt(b, a)
\* BUY price >= best ask, SELL price <= best bid
CrossesBook(side, price) ==
    LET best == IF side = "BUY" THEN market_states[SimToken].best_ask
                ELSE market_states[SimToken].best_bid
    IN  Truthy(best) /\ ~BetterFor(side, price, best)

\* C23: an order that crosses the opposite side fills at once, level by level
\* from the best opposite price outward: each fill is a taker fill at its
\* level's price with slippage |fill price - limit|, none beyond the limit, no
\* level passed over, every level but the last taken whole, at most the order
\* size in total; the walk ends only when the order is filled or the levels
\* within the limit are used up, and a remainder stays open at the limit with
\* queue_position = 0.
C23_CrossingOrderWalksTheBook ==
    [][PlacesOrder /\ CrossesBook(PlacedOrder.side, PlacedOrder.price) =>
        LET o == PlacedOrder
            fills == NewTrades
            opp == OppositeDepth(o.side)
            n == Len(fills)
            total == RSum([k \in 1..n |-> fills[k].size], 1..n)
        IN  /\ \A k \in 1..n :
                  /\ fills[k].order_id = o.order_id
                  /\ ~fills[k].is_maker
                  /\ fills[k].slippage = RAbs(RSub(fills[k].price, o.price))
                  /\ ~BetterFor(o.side, o.price, fills[k].price)
                  /\ RLt(Zero, fills[k].size)
                  /\ \E l \in opp : l.price = fills[k].price /\ RLe(fills[k].size, l.size)
                  /\ \A l \in opp : BetterFor(o.side, l.price, fills[k].price) =>
                         \E j \in 1..(k - 1) : fills[j].price = l.price /\ fills[j].size = l.size
            /\ total = o.size_matched
            /\ RLe(total, o.size)
            /\ IF total = o.size THEN o.status = "MATCHED"
               ELSE /\ o.status = "PARTIAL"
                    /\ o.queue_position = Zero
                    /\ \A l \in opp : ~BetterFor(o.side, o.price, l.price) =>
                           \E k \in 1..n : fills[k].price = l.price /\ fills[k].size = l.size
    ]_vars

\* A bid that took two ask levels whole, the second at its limit, and rests
\* with the remainder at the front of the queue
C23_Witness ==
    (\E i \in 1..Len(sim_orders) :
        /\ sim_orders[i].status = "PARTIAL"
        /\ sim_orders[i].queue_position = Zero
        /\ \E j, k \in 1..Len(sim_trades) :
              /\ j < k
              /\ sim_trades[j].order_id = i /\ sim_trades[k].order_id = i
              /\ ~sim_trades[j].is_maker /\ ~sim_trades[k].is_maker
              /\ RLt(sim_trades[j].price, sim_trades[k].price)
              /\ sim_trades[k].price = sim_orders[i].price)

\* C24: observed market trades move a resting order's queue forward: a market
\* trade lowers the queue_position of every live order that still has queue
\* ahead of it, so that the queue factor of its fill probability rises from 0.2
\* towards 1.0.
C24_MarketTradesAdvanceQueue ==
    [][RLt(sim_volume.recent_volume, sim_volume'.recent_volume) =>
        \A i \in 1..Len(sim_orders) :
            is_live(sim_orders[i]) /\ RLt(Zero, sim_orders[i].queue_position) =>
                /\ RLt(sim_orders'[i].queue_position, sim_orders[i].queue_position)
                /\ RLt(queue_factor(sim_orders[i]), queue_factor(sim_orders'[i]))
    ]_vars

\* The fill probability of the same order, volume and queue state with no
\* price move: that of an empty price history
zero_move_probability(order, volume, now_) ==
    calculate_fill_probability(order, 0, <<>>, volume, now_).prob

\* C25: for a resting BUY whose market mid is below the mid at its placement
\* the fill probability is min(1, 3.0 x p0), and 0.3 x p0 when the mid is above
\* it, p0 being the probability with no price move (the mirror image for a
\* SELL); it always lies in [0, 1].
C25_FillProbabilityFollowsMidMove ==
    sim_op.name = "check_resting_fill" =>
        LET order == sim_orders[sim_op.order_id]
            placed_mid == sim_created[sim_op.order_id].mid
            p0 == zero_move_probability(order, sim_volume, now)
            down == RLt(CurrentMid, placed_mid)
            up == RLt(placed_mid, CurrentMid)
        IN  /\ RLe(Zero, sim_op.prob) /\ RLe(sim_op.prob, FromInt(1))
            /\ placed_mid # None =>
                  /\ (IF order.side = "BUY" THEN down ELSE up) =>
                        sim_op.prob = RMin(FromInt(1), RMul(ADVERSE_SELECTION_MULTIPLIER, p0))
                  /\ (IF order.side = "BUY" THEN up ELSE down) =>
                        sim_op.prob = RMul(FAVORABLE_SELECTION_MULTIPLIER, p0)

\* A fill of an order that rested with an adverse price move when it filled
\* (BUY with price_move < 0, SELL with price_move > 0); a crossing taker fill
\* is of an order that did not rest
fills_adversely(trade) ==
    /\ trade.is_maker
    /\ calculate_fill_probability(sim_orders[trade.order_id],
                                  sim_created[trade.order_id].created_at,
                                  sim_price_history, sim_volume, now).adverse

\* C26: a fill is counted in adverse_fills exactly when the filled order itself
\* rested with an adverse price move at the time of that fill, and in
\* favorable_fills otherwise; an adverse evaluation of an order that did not
\* fill never marks a later fill of another order or a crossing taker fill.
C26_AdverseCountsTheFilledOrder ==
    [][LET fills == NewTrades
           adverse == Cardinality({k \in 1..Len(fills) : fills_adversely(fills[k])})
       IN  /\ sim_stats'.adverse_fills = sim_stats.adverse_fills + adverse
           /\ sim_stats'.favorable_fills = sim_stats.favorable_fills + Len(fills) - adverse
    ]_vars

\* The sum of f over the simulator's trades of a side (and an asset)
SumOverTrades(f(_), side, assets) ==
    LET ks == {k \in 1..Len(sim_trades) :
                 sim_trades[k].side = side /\ sim_trades[k].token_id \in assets}
    IN  RSum([k \in ks |-> f(sim_trades[k])], ks)

\* C27: after any sequence of simulator operations the balance is the starting
\* balance less price x size + fee of every BUY fill plus price x size - fee of
\* every SELL fill, the position of an asset is its BUY fill sizes less its SELL
\* fill sizes, total_volume = maker_volume + taker_volume, and
\* orders_filled + orders_cancelled <= orders_placed.
C27_SimulatorAccounting ==
    LET paid(t) == RAdd(RMul(t.price, t.size), t.fee)
        received(t) == RSub(RMul(t.price, t.size), t.fee)
        size_of(t) == t.size
    IN  /\ sim_balance = RAdd(RSub(starting_balance, SumOverTrades(paid, "BUY", Assets)),
                              SumOverTrades(received, "SELL", Assets))
        /\ \A a \in Assets :
              sim_positions[a] = RSub(SumOverTrades(size_of, "BUY", {a}),
                                      SumOverTrades(size_of, "SELL", {a}))
        /\ sim_stats.total_volume = RAdd(sim_stats.maker_volume, sim_stats.taker_volume)
        /\ sim_stats.orders_filled + sim_stats.orders_cancelled <= sim_stats.orders_placed

\* A bought and a sold fill, a taker and a maker one, an order filled and
\* another cancelled
C27_Witness ==
    /\ \E j, k \in 1..Len(sim_trades) :
          /\ sim_trades[j].side = "BUY" /\ sim_trades[k].side = "SELL"
          /\ sim_trades[j].is_maker # sim_trades[k].is_maker
    /\ sim_stats.orders_filled > 0
    /\ sim_stats.orders_cancelled > 0
    /\ sim_balance # starting_balance

\* cancel_order has just followed the place_order of its order
PlacedThenCancelled == sim_op.name = "cancel_order" /\ sim_op.before # <<>>

\* C28 as stated: for every order and every book, place_order followed by
\* cancel_order of that order leaves the Inventory Ledger and the simulator's
\* balance and positions unchanged.
C28_PlaceThenCancelChangesNothing ==
    PlacedThenCancelled => <<sim_balance, sim_positions, positions>> = sim_op.before

\* C28: place_order of an order that does not fill on placement (it does not
\* cross the book), followed by cancel_order of that order, leaves the
\* Inventory Ledger and the simulator's balance and positions unchanged.
C28_PlaceThenCancelOfRestingOrder ==
    PlacedThenCancelled /\ sim_orders[sim_op.order_id].size_matched = Zero =>
        <<sim_balance, sim_positions, positions>> = sim_op.before

\* An order placed behind the book and cancelled at once, by a simulator that
\* has traded before
C28_Witness ==
    /\ PlacedThenCancelled
    /\ sim_orders[sim_op.order_id].status = "CANCELLED"
    /\ sim_orders[sim_op.order_id].size_matched = Zero
    /\ sim_trades # <<>>

----------------------------------------------------------------------------
(* The push feed's book of token A under snapshots and price changes, with  *)
(* a live client (no simulator) and the bot's orderbook callback wired      *)

\* Bid prices and ask prices
BookPrices ==
    [BUY |-> {R(48, 100), R(49, 100), R(50, 100)}, SELL |-> {R(52, 100), R(53, 100)}]
SnapshotSizes == {FromInt(20)}
ChangeSizes == {Zero, FromInt(10)}
MaxSnapshotLevels == 2

\* The levels of one side of a book event, in any order, no price twice
SnapshotLevels(side) ==
    UNION {{levels \in [1..n -> {Level(p, z) : p \in BookPrices[side], z \in SnapshotSizes}] :
               \A i, j \in 1..n : i # j => levels[i].price # levels[j].price}
           : n \in 0..MaxSnapshotLevels}

\* What neither the feed's book handlers nor the bot's callback touch
outsideBook ==
    <<buy_cash, sell_cash, nfills, riskVars, opVars, qeVars, omVars,
      mode, pc, markets_to_update, place_queue, applied, polls,
      paperVars, stopVars, cashoutVars, roundVars, simVars, reconnect_count, channels,
      asyncVars>>

\* MarketMakingBot._on_orderbook_update for the client's book of token A
OnOrderbookUpdate(book) ==
    LET mid == mid_price(book)
    IN  /\ positions' = IF Truthy(mid)
                        THEN update_all_unrealized(positions, [x \in {SimToken} |-> mid])
                        ELSE positions
        /\ last_mid' = IF Truthy(mid)
                       THEN [last_mid EXCEPT ![SimToken] = [fresh |-> TRUE, price |-> mid]]
                       ELSE last_mid
        /\ pending_quote_updates' = [pending_quote_updates EXCEPT ![SimToken] = TRUE]

\* _handle_book_event with the client's _handle_ws_book as its callback
HandleBookEvent ==
    \E bids \in SnapshotLevels("BUY"), asks \in SnapshotLevels("SELL") :
        \E snapshot \in {book_snapshot([bids |-> bids, asks |-> asks])} :
            /\ ws_orderbooks' = snapshot
            /\ client_ws_orderbooks' = ws_book(snapshot)
            /\ last_change' = [side \in Sides |-> {}]
            /\ feed_op' = [name |-> "book"]
            /\ snapshot_seen' = TRUE
            /\ OnOrderbookUpdate(ws_book(snapshot))
            /\ UNCHANGED outsideBook

\* _handle_price_change_event for one change, with the client's
\* _handle_ws_price_change as its callback
HandlePriceChangeEvent ==
    \E side \in Sides, size \in ChangeSizes : \E price \in BookPrices[side] :
        \E change \in {PriceChange(side, price, size)} :
            /\ ws_orderbooks' = apply_price_change(ws_orderbooks, change)
            /\ client_ws_orderbooks' = handle_ws_price_change(client_ws_orderbooks, change)
            /\ last_change' = IF ws_orderbooks.cached
                              THEN [last_change EXCEPT ![side] =
                                       {r \in @ : r.price # price} \cup {Level(price, size)}]
                              ELSE last_change
            /\ feed_op' = [name |-> "price_change", change |-> change,
                           changed |-> ws_orderbooks' # ws_orderbooks]
            /\ IF client_ws_orderbooks.cached
               THEN OnOrderbookUpdate(client_ws_orderbooks')
               ELSE UNCHANGED <<positions, last_mid, pending_quote_updates>>
            /\ UNCHANGED snapshot_seen
            /\ UNCHANGED outsideBook

\* The bot in push mode before any event
InitFeed == InitSim

NextBook ==
    \/ HandleBookEvent
    \/ HandlePriceChangeEvent

SpecBook == InitFeed /\ [][NextBook]_vars

\* A side holds no price twice and is sorted: bids descending, asks ascending
SortedSide(levels, descending) ==
    \A i, j \in 1..Len(levels) :
        i < j => IF descending THEN RLt(levels[j].price, levels[i].price)
                 ELSE RLt(levels[i].price, levels[j].price)

WellFormedBook(book) ==
    /\ SortedSide(book.bids, TRUE)
    /\ SortedSide(book.asks, FALSE)
    /\ \A side \in Sides : \A r \in last_change[side] :
          r.size = Zero =>
              LET levels == IF side = "BUY" THEN book.bids ELSE book.asks
              IN  \A i \in 1..Len(levels) : levels[i].price # r.price

----------------------------------------------------------------------------
(* The push feed's channel runners under connection failures *)

\* A channel fails only while it has failed fewer times in a row
MaxFailures == 12

outsideChannel == <<programVars, roundVars, simVars, bookVars, asyncVars>>

\* websockets.connect succeeds: _connect_market_channel resets the count;
\* both channels send their subscription and listen
ChannelConnects(c) ==
    /\ channels[c].pc = "connecting"
    /\ reconnect_count' = IF c = "market" THEN 0 ELSE reconnect_count
    /\ channels' = [channels EXCEPT ![c] =
                       [pc |-> "listening", wait_time |-> 0, failures |-> 0, subscribed |-> TRUE]]
    /\ snapshot_seen' = (snapshot_seen /\ c # "market")
    /\ UNCHANGED outsideChannel

\* The connection attempt or the open connection raises: the except branch
\* of _run_market_channel or _run_user_channel
ChannelFails(c) ==
    /\ channels[c].pc \in {"connecting", "listening"}
    /\ channels[c].failures < MaxFailures
    /\ reconnect_count' = IF c = "market" THEN reconnect_count + 1 ELSE reconnect_count
    /\ channels' = [channels EXCEPT ![c] =
                       IF c = "market" /\ reconnect_count' > max_reconnect_attempts
                       THEN [pc |-> "ended", wait_time |-> 0,
                             failures |-> @.failures + 1, subscribed |-> FALSE]
                       ELSE [pc |-> "sleeping", wait_time |-> wait_time(reconnect_count'),
                             failures |-> @.failures + 1, subscribed |-> FALSE]]
    /\ UNCHANGED snapshot_seen
    /\ UNCHANGED outsideChannel

\* The server closes the connection normally: the message loop ends and the
\* runner connects again at once
ChannelClosesNormally(c) ==
    /\ channels[c].pc = "listening"
    /\ channels' = [channels EXCEPT ![c] = [@ EXCEPT !.pc = "connecting", !.subscribed = FALSE]]
    /\ UNCHANGED <<reconnect_count, snapshot_seen>>
    /\ UNCHANGED outsideChannel

\* asyncio.sleep(wait_time) returns
ChannelWakes(c) ==
    /\ channels[c].pc = "sleeping"
    /\ channels' = [channels EXCEPT ![c] = [@ EXCEPT !.pc = "connecting"]]
    /\ UNCHANGED <<reconnect_count, snapshot_seen>>
    /\ UNCHANGED outsideChannel

NextChannel ==
    \E c \in Channels :
        \/ ChannelConnects(c)
        \/ ChannelFails(c)
        \/ ChannelClosesNormally(c)
        \/ ChannelWakes(c)

SpecChannel == InitFeed /\ [][NextChannel]_vars

\* 5s, 10s, 20s, 40s, 60s, 60s, ...: the delay after the n-th failed attempt
\* in a row
BackoffLadder(n) == Min(5 * (2 ^ (n - 1)), 60)

\* C30: on disconnect either channel retries after 5s, 10s, 20s, 40s, 60s,
\* 60s, ... (first delay 5s, doubling, capped at 60s), gives up after 10
\* failed attempts in a row, starts the ladder again after a successful
\* connection, and sends its subscription on every connection.
C30_ReconnectLadder ==
    \A c \in Channels :
        /\ channels[c].pc = "sleeping" => channels[c].wait_time = BackoffLadder(channels[c].failures)
        /\ channels[c].failures <= 10
        /\ channels[c].failures = 10 => channels[c].pc = "ended"
        /\ channels[c].pc = "listening" => channels[c].subscribed /\ channels[c].failures = 0

----------------------------------------------------------------------------
(* update_quotes called again and again, also with quote sets that repeat a *)
(* (price, size) pair on a side                                             *)

RepeatQuoteSets ==
    { [bids |-> <<Quote(R(48, 100), FromInt(20), "BUY"), Quote(R(48, 100), FromInt(20), "BUY")>>,
       asks |-> <<>>],
      [bids |-> <<Quote(R(48, 100), FromInt(20), "BUY")>>,
       asks |-> <<Quote(R(52, 100), FromInt(20), "SELL"), Quote(R(52, 100), FromInt(20), "SELL")>>],
      [bids |-> <<Quote(R(48, 100), FromInt(20), "BUY"), Quote(R(47, 100), FromInt(20), "BUY")>>,
       asks |-> <<>>],
      [bids |-> <<Quote(R(47, 100), FromInt(20), "BUY")>>,
       asks |-> <<Quote(R(52, 100), FromInt(20), "SELL")>>] }

RepeatUpdateQuotes ==
    \E a \in Tokens, qs \in RepeatQuoteSets, accepts \in BOOLEAN : UpdateQuotes(a, qs, accepts)

NextRepeat ==
    \/ RepeatUpdateQuotes
    \/ OMCancelAllOrders
    \/ SimUpdateOrderbook

SpecRepeat == InitSpecOM /\ [][NextRepeat]_vars

\* C32: update_quotes is idempotent under multiset matching: for any QuoteSet,
\* also one whose side repeats a (price, size) pair, a second update_quotes
\* with the same QuoteSet right after a first one whose placements all gave
\* LIVE orders cancels no order and places no order.
C32_SecondUpdateSendsNothing ==
    [][/\ om_op.name = "update_quotes"
       /\ \A side \in Sides : om_rejected[side] = {}
       /\ om_op'.name = "update_quotes"
       /\ om_op'.token_id = om_op.token_id
       /\ om_op'.bids = om_op.bids /\ om_op'.asks = om_op.asks
       => om_op'.requests = NoRequests
    ]_vars

----------------------------------------------------------------------------
(* The market channel and the bid side of the book together: events arrive *)
(* while the channel listens, and the channel fails once                    *)

FeedBookEvent ==
    /\ channels["market"].pc = "listening"
    /\ HandleBookEvent
    /\ ws_orderbooks'.asks = <<>>

FeedPriceChangeEvent ==
    /\ channels["market"].pc = "listening"
    /\ HandlePriceChangeEvent
    /\ feed_op'.change.side = "BUY"

FeedConnects == ChannelConnects("market")

FeedFails ==
    /\ channels["market"].failures = 0
    /\ ChannelFails("market")

FeedClosesNormally == ChannelClosesNormally("market")

FeedWakes == ChannelWakes("market")

NextFeed ==
    \/ FeedBookEvent
    \/ FeedPriceChangeEvent
    \/ FeedConnects
    \/ FeedFails
    \/ FeedClosesNormally
    \/ FeedWakes

SpecFeed == InitFeed /\ [][NextFeed]_vars

\* C31: when the push feed reconnects the local book is discarded: between the
\* reconnect and the next snapshot neither cache holds a book for the asset,
\* and a price change arriving before that snapshot changes no level.
C31_BookDiscardedOnReconnect ==
    [][channels'["market"].pc = "listening" /\ ~snapshot_seen' =>
          /\ ~ws_orderbooks'.cached
          /\ ~client_ws_orderbooks'.cached
          /\ channels["market"].pc = "listening" /\ ~snapshot_seen =>
                UNCHANGED <<ws_orderbooks, client_ws_orderbooks>>
    ]_vars

----------------------------------------------------------------------------
(* The Order Manager's coroutines, interleaved.  update_quotes,              *)
(* cancel_all_orders and cancel_stale_orders give up control at every await  *)
(* of a venue call; between two awaits a coroutine runs alone.  Here         *)
(* _orders[A] is the last of om_dicts, its lists hold order ids and the      *)
(* ManagedOrder objects are om_objects, so that a coroutine's list and the   *)
(* table share the objects as they do in Python.                             *)

\* The state the coroutines share, as a step finds it
World ==
    [tasks |-> om_tasks, pending |-> om_pending_cancels, objects |-> om_objects,
     dicts |-> om_dicts, requests |-> venue_requests, skipped |-> {}]

CancelInFlight(t, order_id) == [task |-> t, order_id |-> order_id]

\* _cancel_order that sends its request whether or not one is pending.
om_cancel_order_unguarded(w, t, order_id) ==
    [w EXCEPT !.pending = @ \cup {order_id},
              !.requests = @ \cup {CancelInFlight(t, order_id)},
              !.tasks[t].pc = "await_cancel"]

\* OrderManager._cancel_order up to its await: it returns at once when a
\* cancel of the order is pending, and otherwise notes the order as pending
\* and sends the request.
om_cancel_order(w, t, order_id) ==
    IF order_id \in w.pending
    THEN [w EXCEPT !.skipped = @ \cup {CancelInFlight(t, order_id)}]
    ELSE [w EXCEPT !.pending = @ \cup {order_id},
                   !.requests = @ \cup {CancelInFlight(t, order_id)},
                   !.tasks[t].pc = "await_cancel"]

OrderIds(managed_orders) == [i \in 1..Len(managed_orders) |-> managed_orders[i].order_id]

\* _update_side up to its cancel loop, on the list the dict of the coroutine
\* holds for the side when the call is made
begin_side(w, t, side) ==
    LET task == w.tasks[t]
        ids == w.dicts[task.dict][side]
        current_orders == [i \in 1..Len(ids) |-> w.objects[ids[i]]]
        new_quotes == IF side = "BUY" THEN task.bids ELSE task.asks
        m == match_existing(current_orders, QuoteKeys(new_quotes), <<>>, <<>>)
    IN  [w EXCEPT !.tasks[t] =
            [task EXCEPT !.side = side, !.pc = "loop", !.iter = OrderIds(m.cancel),
                         !.keep = OrderIds(m.keep), !.desired = m.desired,
                         !.place = new_quotes]]

\* Whether the loop of the coroutine cancels the order it has reached
cancels_order(task, managed) ==
    CASE task.op = "update_quotes" -> TRUE
      [] task.op = "cancel_all_orders" -> managed.status = "LIVE"
      [] OTHER -> is_stale(managed, task.started, order_timeout)

RECURSIVE run(_, _)
\* The coroutine from where it is to its next await, or to its end
run(w, t) ==
    LET task == w.tasks[t]
    IN  CASE task.pc = "loop" /\ task.iter # <<>> ->
               IF cancels_order(task, w.objects[Head(task.iter)])
               THEN LET sent == CHOOSE x \in {om_cancel_order(w, t, Head(task.iter))} : TRUE
                    IN  IF sent.tasks[t].pc = "await_cancel" THEN sent
                        ELSE run([sent EXCEPT !.tasks[t].iter = Tail(@)], t)
               ELSE run([w EXCEPT !.tasks[t].iter = Tail(@)], t)
          [] task.pc = "loop" /\ task.iter = <<>> ->
               CASE task.op = "update_quotes" -> run([w EXCEPT !.tasks[t].pc = "place_loop"], t)
                 [] task.op # "update_quotes" /\ task.side = "BUY" ->
                      run([w EXCEPT !.tasks[t].side = "SELL",
                                    !.tasks[t].iter = w.dicts[task.dict]["SELL"]], t)
                 [] task.op = "cancel_all_orders" /\ task.side = "SELL" ->
                      [w EXCEPT !.dicts = Append(@, NoOrdersDict),
                                !.tasks[t].pc = "await_cancel_all"]
                 [] OTHER -> [w EXCEPT !.tasks[t] = IdleTask]
          [] task.pc = "place_loop" /\ task.place # <<>> ->
               IF QuoteKey(Head(task.place)) \in task.desired
               THEN [w EXCEPT !.tasks[t].pc = "await_place"]
               ELSE run([w EXCEPT !.tasks[t].place = Tail(@)], t)
          [] task.pc = "place_loop" /\ task.place = <<>> ->
               LET written == [w EXCEPT !.dicts[Len(w.dicts)][task.side] = task.keep]
               IN  IF task.side = "BUY" THEN run(begin_side(written, t, "SELL"), t)
                   ELSE [written EXCEPT !.tasks[t] = IdleTask]
          [] OTHER -> w

WorldBecomes(w) ==
    /\ om_tasks' = w.tasks
    /\ om_pending_cancels' = w.pending
    /\ om_objects' = w.objects
    /\ om_dicts' = w.dicts
    /\ venue_requests' = w.requests
    /\ om_skipped' = w.skipped

\* What no coroutine of the Order Manager touches
outsideTasks ==
    <<ledgerVars, riskVars, opVars, qeVars, om_orders, market_states, om_op, om_rejected,
      om_sync, loopVars, paperVars, stopVars, cashoutVars, roundVars, simVars, feedVars>>

\* The quote sets the coroutines are given: one side moves, the other stays
TaskQuoteSets ==
    {[bids |-> <<Quote(R(48, 100), FromInt(10), "BUY")>>,
      asks |-> <<Quote(R(52, 100), FromInt(10), "SELL")>>],
     [bids |-> <<Quote(R(47, 100), FromInt(10), "BUY")>>,
      asks |-> <<Quote(R(52, 100), FromInt(10), "SELL")>>]}

\* update_quotes is not called once the venue has seen MaxTaskOrders orders,
\* nor cancel_all_orders once it has been called MaxCancelAlls times.
MaxTaskOrders == 2
MaxCancelAlls == 1

\* update_quotes(A, quote_set) called: to its first await
TaskUpdateQuotes(t, qs) ==
    /\ om_tasks[t].pc = "idle"
    /\ Len(sim_orders) < MaxTaskOrders
    /\ LET called == [World EXCEPT !.tasks[t] =
                         [IdleTask EXCEPT !.op = "update_quotes", !.dict = Len(om_dicts),
                                          !.bids = qs.bids, !.asks = qs.asks]]
       IN  \E w \in {run(begin_side(called, t, "BUY"), t)} : WorldBecomes(w)
    /\ om_cancelled_all' = FALSE
    /\ UNCHANGED <<sim_orders, sim_trades, now>>
    /\ UNCHANGED outsideTasks

\* cancel_all_orders(A) called: to its first await
TaskCancelAllOrders(t) ==
    /\ om_tasks[t].pc = "idle"
    /\ Len(om_dicts) <= MaxCancelAlls
    /\ LET called == [World EXCEPT !.tasks[t] =
                         [IdleTask EXCEPT !.op = "cancel_all_orders", !.dict = Len(om_dicts),
                                          !.pc = "loop", !.side = "BUY",
                                          !.iter = om_dicts[Len(om_dicts)]["BUY"]]]
       IN  \E w \in {run(called, t)} : WorldBecomes(w)
    /\ UNCHANGED <<sim_orders, sim_trades, now, om_cancelled_all>>
    /\ UNCHANGED outsideTasks

\* cancel_stale_orders() called: to its first await
TaskCancelStaleOrders(t) ==
    /\ om_tasks[t].pc = "idle"
    /\ LET called == [World EXCEPT !.tasks[t] =
                         [IdleTask EXCEPT !.op = "cancel_stale_orders", !.dict = Len(om_dicts),
                                          !.pc = "loop", !.side = "BUY", !.started = now,
                                          !.iter = om_dicts[Len(om_dicts)]["BUY"]]]
       IN  \E w \in {run(called, t)} : WorldBecomes(w)
    /\ UNCHANGED <<sim_orders, sim_trades, now, om_cancelled_all>>
    /\ UNCHANGED outsideTasks

\* client.cancel_order returns to _cancel_order: the venue has cancelled the
\* order if it was open and the request reached it; the order is marked
\* CANCELLED on success and is no longer pending either way
TaskCancelReturns(t) ==
    /\ om_tasks[t].pc = "await_cancel"
    /\ \E reaches \in BOOLEAN :
        LET order_id == Head(om_tasks[t].iter)
            res == IF reaches THEN sim_cancel_order(Sim, order_id) ELSE <<Sim, FALSE>>
            returned == [World EXCEPT
                            !.objects[order_id].status = IF res[2] THEN "CANCELLED" ELSE @,
                            !.pending = @ \ {order_id},
                            !.requests = @ \ {CancelInFlight(t, order_id)},
                            !.tasks[t].pc = "loop",
                            !.tasks[t].iter = Tail(@)]
        IN  /\ sim_orders' = res[1].orders
            /\ \E w \in {run(returned, t)} : WorldBecomes(w)
    /\ UNCHANGED <<sim_trades, now, om_cancelled_all>>
    /\ UNCHANGED outsideTasks

\* client.place_order returns to _update_side with the order the venue took
TaskPlaceReturns(t) ==
    /\ om_tasks[t].pc = "await_place"
    /\ LET task == om_tasks[t]
           quote == Head(task.place)
           placed == sim_place_order(Sim, market_states["A"], "A", task.side,
                                     quote.price, quote.size)
           order == placed.orders[Len(placed.orders)]
           returned == [World EXCEPT
                           !.objects = Append(@, ManagedOrder(order, now)),
                           !.tasks[t].keep = Append(@, order.order_id),
                           !.tasks[t].place = Tail(@),
                           !.tasks[t].pc = "place_loop"]
       IN  /\ sim_orders' = placed.orders
           /\ sim_trades' = placed.trades
           /\ \E w \in {run(returned, t)} : WorldBecomes(w)
    /\ UNCHANGED <<now, om_cancelled_all>>
    /\ UNCHANGED outsideTasks

\* client.cancel_all_orders(A) returns to cancel_all_orders, which ends
TaskCancelAllReturns(t) ==
    /\ om_tasks[t].pc = "await_cancel_all"
    /\ sim_orders' = sim_cancel_all_orders(Sim, "A").orders
    /\ WorldBecomes([World EXCEPT !.tasks[t] = IdleTask])
    /\ om_cancelled_all' = TRUE
    /\ UNCHANGED <<sim_trades, now>>
    /\ UNCHANGED outsideTasks

\* Time passes
TaskClock ==
    /\ now < MaxTime
    /\ now' = now + 1
    /\ WorldBecomes(World)
    /\ UNCHANGED <<sim_orders, sim_trades, om_cancelled_all>>
    /\ UNCHANGED outsideTasks

NextTasks ==
    \/ \E t \in Tasks, qs \in TaskQuoteSets : TaskUpdateQuotes(t, qs)
    \/ \E t \in Tasks : TaskCancelAllOrders(t)
    \/ \E t \in Tasks : TaskCancelStaleOrders(t)
    \/ \E t \in Tasks : TaskCancelReturns(t)
    \/ \E t \in Tasks : TaskPlaceReturns(t)
    \/ \E t \in Tasks : TaskCancelAllReturns(t)
    \/ TaskClock

SpecTasks == InitSpecOM /\ [][NextTasks]_vars

\* C33: at no time are two cancel requests for one order id in flight at the
\* venue, whichever of update_quotes, cancel_stale_orders and
\* cancel_all_orders sent them; a cancel is skipped only while one for the
\* same order is pending.
C33_OneCancelInFlightPerOrder ==
    [][/\ \A r1, r2 \in venue_requests' : r1.order_id = r2.order_id => r1 = r2
       /\ \A s \in om_skipped' : s.order_id \in om_pending_cancels
    ]_vars

\* A coroutine skipped the cancel of an order while another's request for it
\* was in flight.
C33_Witness ==
    \E s \in om_skipped, r \in venue_requests :
        r.order_id = s.order_id /\ r.task # s.task

\* The orders the Order Manager tracks as LIVE
TrackedLive ==
    {id \in 1..Len(om_objects) :
        /\ om_objects[id].status = "LIVE"
        /\ \E side \in Sides : \E i \in 1..Len(om_dicts[Len(om_dicts)][side]) :
              om_dicts[Len(om_dicts)][side][i] = id}

\* The orders open at the venue
OpenAtVenue == {id \in 1..Len(sim_orders) : is_live(sim_orders[id])}

\* C39: once cancel_all_orders(A) has returned, and until update_quotes is
\* called again, no order of A is open at the venue or tracked as LIVE by the
\* Order Manager, even when an update_quotes for A was under way in another
\* coroutine while the cancel ran.
C39_NothingLiveAfterCancelAll ==
    om_cancelled_all => OpenAtVenue = {} /\ TrackedLive = {}

----------------------------------------------------------------------------
(* The Order Manager's table against the orders open at the venue *)

\* The ids of the orders in the Order Manager's table
TrackedIds ==
    UNION {{om_orders[a][side][i].order_id : i \in 1..Len(om_orders[a][side])} :
              a \in Tokens, side \in Sides}

\* C36: every order the Order Manager placed that is still open at the venue
\* (LIVE or PARTIAL) is in its table; update_quotes drops neither an order
\* whose status is PARTIAL nor one whose cancel failed while it can still
\* fill.
C36_OpenOrdersStayTracked ==
    OpenAtVenue \subseteq TrackedIds

\* C40: when the venue's order query fails during sync_with_exchange, the
\* Order Manager's tracked orders and their statuses are left as they were.
C40_FailedQueryChangesNothing ==
    [][om_op'.name = "sync_with_exchange, query failed" => om_orders' = om_orders]_vars

----------------------------------------------------------------------------
(* The polling loop with the Order Manager and the venue: a tick, whole.    *)
(* The ticks follow one another within order_timeout, so that                *)
(* cancel_stale_orders finds no order stale.                                 *)

\* The quotes calculate_quotes gives for token A, before the risk filter
HaltQuotes ==
    <<Quote(R(48, 100), FromInt(10), "BUY"), Quote(R(52, 100), FromInt(10), "SELL")>>
\* The mids _update_market_data may see
HaltMids == {R(48, 100), R(40, 100)}

QuotesOfSide(qs, side) == SelectSeq(qs, LAMBDA q : q.side = side)

\* One iteration of _run_polling_loop for token A: _update_market_data,
\* _check_fills, check_daily_loss and, unless the loss limit is hit,
\* _update_quotes_for_market and cancel_stale_orders.  quotes: what
\* calculate_quotes gives.
PollTick(quotes_) ==
    \E mid \in HaltMids :
    \E filled \in {apply_trades(update_all_unrealized(positions, [x \in {"A"} |-> mid]),
                                LastTrades(sim_trades, TradesLimit))} :
    \E hit \in {daily_loss_hit(filled)} :
    \E is_halted \in {halted_after_check_daily_loss(filled, halted)} :
    \E filtered \in {IF hit THEN <<>>
                     ELSE filter_quotes(filled, is_halted, halt_reason, "A", quotes_)} :
    \E bids \in {[i \in 1..Len(QuotesOfSide(filtered, "BUY")) |->
                    Quote(QuotesOfSide(filtered, "BUY")[i].price,
                          QuotesOfSide(filtered, "BUY")[i].size, "BUY")]} :
    \E asks \in {[i \in 1..Len(QuotesOfSide(filtered, "SELL")) |->
                    Quote(QuotesOfSide(filtered, "SELL")[i].price,
                          QuotesOfSide(filtered, "SELL")[i].size, "SELL")]} :
    \E buy \in {update_side(om_orders["A"]["BUY"], Sim, market_states["A"], "A", "BUY",
                            bids, now, TRUE)} :
    \E sell \in {update_side(om_orders["A"]["SELL"], buy.sim, market_states["A"], "A", "SELL",
                             asks, now, TRUE)} :
    \E called \in {filtered # <<>>} :
    \E stale_buy \in {cancel_stale_each(IF called THEN buy.keep ELSE om_orders["A"]["BUY"],
                                        IF called THEN sell.sim ELSE Sim, now, order_timeout)} :
    \E stale_sell \in {cancel_stale_each(IF called THEN sell.keep ELSE om_orders["A"]["SELL"],
                                         stale_buy.sim, now, order_timeout)} :
        LET trades == LastTrades(sim_trades, TradesLimit)
        IN  /\ mode = "polling"
            /\ polls < MaxPolls
            /\ polls' = polls + 1
            /\ positions' = filled
            /\ buy_cash' = [a \in Assets |-> RAdd(buy_cash[a], cash_of(trades, a, "BUY"))]
            /\ sell_cash' = [a \in Assets |-> RAdd(sell_cash[a], cash_of(trades, a, "SELL"))]
            /\ last_mid' = [a \in Assets |->
                              IF \E k \in 1..Len(trades) : trades[k].token_id = a
                              THEN [fresh |-> FALSE, price |-> Zero]
                              ELSE IF a = "A" THEN [fresh |-> TRUE, price |-> mid]
                              ELSE last_mid[a]]
            /\ halted' = is_halted
            /\ halt_reason' = halt_reason_after_check_daily_loss(filled, halt_reason)
            /\ last_op' = Op("poll_tick", "A", "-", Zero, mid)
            /\ last_result' = <<hit, <<"", "">>>>
            /\ om_orders' = IF hit THEN om_orders
                            ELSE [om_orders EXCEPT !["A"] =
                                     [BUY |-> stale_buy.orders, SELL |-> stale_sell.orders]]
            /\ sim_orders' = IF hit THEN sim_orders ELSE stale_sell.sim.orders
            /\ sim_trades' = IF hit THEN sim_trades ELSE stale_sell.sim.trades
            /\ om_op' = [name |-> IF called THEN "update_quotes" ELSE "no update_quotes",
                         token_id |-> "A", bids |-> bids, asks |-> asks,
                         requests |-> IF called
                                      THEN [BUY |-> buy.requests, SELL |-> sell.requests]
                                      ELSE NoRequests]
            /\ om_rejected' = [side \in Sides |-> {}]
            /\ om_sync' = NoSync
            /\ UNCHANGED <<nfills, daily_pnl, daily_pnl_reset_time, today, market_states, now,
                           mode, pc, markets_to_update, place_queue, pending_quote_updates,
                           applied>>
            /\ UNCHANGED <<qeVars, paperVars, stopVars, cashoutVars, componentVars>>

HaltPollTick == PollTick(HaltQuotes)

NextHalt ==
    \/ HaltPollTick
    \/ HaltTrading
    \/ ResumeTrading
    \/ SimFillResting
    \/ SimUpdateOrderbook

SpecHalt == InitSpecOM /\ [][NextHalt]_vars

\* C37: a loop tick that starts with the Risk Gate halted, or in which the
\* gate rejects every level of the asset's QuoteSet, ends with no order of the
\* asset open at the venue.
C37_HaltedTickCancelsRestingOrders ==
    [][/\ polls' = polls + 1
       /\ \/ halted
          \/ ~last_result'[1] /\ om_op'.bids = <<>> /\ om_op'.asks = <<>>
       => OpenAtVenue' = {}
    ]_vars

----------------------------------------------------------------------------
(* The polling loop quoting two levels a side *)

\* Two bid levels and an ask: each bid alone stays within
\* max_position_per_market, the two together do not
LevelQuotes ==
    <<Quote(R(48, 100), FromInt(15), "BUY"), Quote(R(47, 100), FromInt(15), "BUY"),
      Quote(R(52, 100), FromInt(15), "SELL")>>
MaxLevelTrades == 2

LevelsPollTick == PollTick(LevelQuotes)
LevelsFillResting == FillResting(RestingFillSizes, MaxLevelTrades)

NextLevels ==
    \/ LevelsPollTick
    \/ LevelsFillResting
    \/ SimUpdateOrderbook

SpecLevels == InitSpecOM /\ [][NextLevels]_vars

\* C35: after any sequence of ticks and fills of orders the loop placed
\* through the Risk Gate, every position satisfies
\* |quantity| <= max_position_per_market.
C35_PositionWithinLimit ==
    \A a \in Assets : Abs(positions[a].quantity) <= max_position_per_market

----------------------------------------------------------------------------
(* The Inventory Ledger against the simulator's positions, in polling mode *)

\* The expected fill of a resting order: a fraction of a share among them
FractionalFillSizes == {R(5, 2), FromInt(10)}

MirrorPollTick == PollTick(HaltQuotes)
MirrorFillResting == FillResting(FractionalFillSizes, MaxLevelTrades)

NextMirror ==
    \/ MirrorPollTick
    \/ MirrorFillResting
    \/ SimUpdateOrderbook

SpecMirror == InitSpecOM /\ [][NextMirror]_vars

\* PaperTradingSimulator.positions[a]: _execute_fill adds the size of every BUY
\* fill and takes away the size of every SELL fill
SimulatorPosition(a) ==
    RSub(SumOverTrades(LAMBDA t : t.size, "BUY", {a}),
         SumOverTrades(LAMBDA t : t.size, "SELL", {a}))

\* C38: in paper mode, after every loop tick the Inventory Ledger's quantity
\* of each asset equals the simulator's position of that asset, partial fills
\* of fractional size included.
C38_LedgerMirrorsSimulator ==
    [][polls' = polls + 1 =>
          \A a \in Assets : FromInt(positions'[a].quantity) = SimulatorPosition(a)'
    ]_vars

----------------------------------------------------------------------------
(* The needs-update flags of push mode, checked under SpecLoop *)

\* The step is a wake-up: _process_pending_quote_updates reads and clears
WakeUp == last_op'.name = "process_pending"
\* check_daily_loss of the wake-up found the loss limit hit
WakeUpHitLossLimit == last_result'[1]
FlaggedAssets == {a \in Assets : pending_quote_updates[a]}
AssetsToUpdate == {markets_to_update[i] : i \in 1..Len(markets_to_update)}

\* C34: each wake-up re-quotes exactly the assets whose flag was set when the
\* flags were read and cleared, and a flag is cleared only by a wake-up that
\* re-quotes its asset.
C34_WakeUpRequotesExactlyFlagged ==
    [][/\ WakeUp => AssetsToUpdate' = FlaggedAssets
       /\ \A a \in Assets :
             pending_quote_updates[a] /\ ~pending_quote_updates'[a] =>
                 WakeUp /\ a \in AssetsToUpdate'
    ]_vars

\* C34 (amended): a wake-up in which the daily loss limit is not hit
\* re-quotes exactly the assets whose flag was set when the flags were read
\* and cleared; a wake-up in which it is hit clears those flags and re-quotes
\* nothing.  A flag set by a book or fill callback after the read, while
\* re-quoting is under way, stays set until a later wake-up reads it.
C34_WakeUpWithinLossLimitRequotesFlagged ==
    [][/\ WakeUp /\ ~WakeUpHitLossLimit => AssetsToUpdate' = FlaggedAssets
       /\ WakeUp /\ WakeUpHitLossLimit => AssetsToUpdate' = {} /\ halted'
       /\ \A a \in Assets :
             pending_quote_updates[a] /\ ~pending_quote_updates'[a] =>
                 WakeUp /\ (WakeUpHitLossLimit \/ a \in AssetsToUpdate')
    ]_vars

\* A callback has set the flag of an asset while the wake-up that read the
\* flags is still re-quoting.
C34_Witness ==
    /\ mode = "push"
    /\ pc = "quoting"
    /\ last_op.name \in {"venue_fill", "on_orderbook_update"}
    /\ pending_quote_updates[last_op.token_id]

=============================================================================
